---- MODULE Spec2Model ----
(***************************************************************************)
(* multilink: JSON-RPC over stdio (client comm task, server main loop) and *)
(* the error / message model they share.                                   *)
(*                                                                         *)
(* The state machines of this module:                                      *)
(*   SpecClient  - StdioClient::call futures and StdioClientCommTask       *)
(*   SpecServer  - StdioServer::run, its handler sub-tasks and streams     *)
(*   SpecPair    - a StdioClient and the StdioServer it spawned            *)
(*   SpecWire, SpecHttpServer, SpecHttpClient, SpecSse - an error over     *)
(*                 each wire, and the HTTP server, client and SSE stream   *)
(*   SpecLife    - clones and drop of the StdioClient, I/O of its task     *)
(*   SpecServerIo, SpecLines - I/O errors and malformed lines              *)
(*   SpecConv    - one application of a conversion of jsonrpc.rs           *)
(*   SpecOut     - the server's stdout, write by write, under its mutex    *)
(* The child process (for the client), the parent process and the user     *)
(* handler (for the server) and the user converters are the environment:   *)
(* their choices are drawn with \E from the small sets defined below.      *)
(***************************************************************************)
EXTENDS Integers, Sequences, FiniteSets, TLC

(***************************************************************************)
(* Bounds of the model.                                                    *)
(***************************************************************************)
\* number of StdioClient::call invocations (over all clones of one client);
\* call c is the c-th call to reach the submission channel
MaxCalls == 2
\* number of lines read from the child's stdout that name the id of a
\* submitted call or carry a request (every other line changes nothing and
\* may be read any number of times)
MaxLines == 3
\* number of requests the server hands to its service (a line that is no
\* request, or that the request converter rejects, changes nothing and may
\* be read any number of times)
MaxReqs == 2
\* longest handler stream (items before the stream ends)
MaxItems == 2
\* Messages the main loop of the stdio server writes to stdout.
MaxMsgs == 2
\* Writes write_all needs for the longest serialized message.
MaxOutChunks == 2
\* number of HTTP requests the server's connections receive
MaxHttpCalls == 2
\* number of chunks the body of an event stream arrives in
MaxChunks == 3
\* number of StdioClient values alive at once (the one new returns and its clones)
MaxClones == 2
\* the i32 codes converted are those at most this far from -32650
CodeSpread == 60

(***************************************************************************)
(* JSON values used as ids, and decimal strings.                           *)
(***************************************************************************)
\* A JSON id: a number (t = "num", v its value), a string holding the
\* decimal digits of v (t = "str") or null (t = "null").
NumId(n) == [t |-> "num", v |-> n]
StrId(n) == [t |-> "str", v |-> n]
NullId == [t |-> "null", v |-> 0]

\* An id reader that takes every value that is no number for the id 1.
mutant_IdAsU64(j) == IF j.t = "num" /\ j.v >= 0 THEN j.v ELSE 1

\* serde_json: Value::as_u64().unwrap_or_default() and
\* serde_json::from_value::<u64>(id).unwrap_or_default(): a non-negative
\* integer is itself, every other value defaults to 0.
IdAsU64(j) == IF j.t = "num" /\ j.v >= 0 THEN j.v ELSE 0

Digits == <<"0", "1", "2", "3", "4", "5", "6", "7", "8", "9">>
IsDigit(ch) == \E d \in 1..10 : Digits[d] = ch
DigitVal(ch) == (CHOOSE d \in 1..10 : Digits[d] = ch) - 1

RECURSIVE DigitsValue(_)
DigitsValue(s) ==
    IF s = <<>> THEN 0
    ELSE DigitsValue(SubSeq(s, 1, Len(s) - 1)) * 10 + DigitVal(s[Len(s)])

\* str::parse::<u64>().unwrap_or_default(): an optional '+', then one or
\* more decimal digits; anything else fails to parse and defaults to 0.
ParseU64(s) ==
    LET body == IF s # <<>> /\ Head(s) = "+" THEN Tail(s) ELSE s
    IN  IF body # <<>> /\ \A k \in 1..Len(body) : IsDigit(body[k])
        THEN DigitsValue(body)
        ELSE 0

\* u64::to_string(): the decimal digits, no sign, no leading zero.
RECURSIVE U64ToString(_)
U64ToString(n) ==
    IF n < 10 THEN <<Digits[n + 1]>>
    ELSE U64ToString(n \div 10) \o <<Digits[(n % 10) + 1]>>

(***************************************************************************)
(* Error model (error.rs, jsonrpc.rs).                                     *)
(***************************************************************************)
ProtocolErrorType ==
    {"NotFound", "HttpMethodNotAllowed", "BadRequest", "Unauthorized", "Internal"}

ParseError == -32700
InvalidRequest == -32600
MethodNotFound == -32601
InvalidParams == -32602
InternalError == -32603

\* A code table without the parse error.
mutant_JsonRpcErrorCodeFromI32(value) ==
    IF value \in {InvalidRequest, MethodNotFound, InvalidParams, InternalError}
    THEN value
    ELSE InternalError

\* impl From<i32> for JsonRpcErrorCode
JsonRpcErrorCodeFromI32(value) ==
    IF value \in {ParseError, InvalidRequest, MethodNotFound, InvalidParams, InternalError}
    THEN value
    ELSE InternalError

\* A conversion that reports Internal with the code of an invalid request.
mutant_JsonRpcErrorCodeFromType(value) ==
    CASE value = "BadRequest" -> InvalidRequest
      [] value = "Unauthorized" -> InvalidRequest
      [] value = "Internal" -> InvalidRequest
      [] OTHER -> InternalError

\* impl From<ProtocolErrorType> for JsonRpcErrorCode
JsonRpcErrorCodeFromType(value) ==
    CASE value = "BadRequest" -> InvalidRequest
      [] value = "Unauthorized" -> InvalidRequest
      [] value = "Internal" -> InternalError
      [] OTHER -> InternalError

\* A code map that reads an invalid request as an internal error.
mutant_JsonRpcErrorCodeIntoType(code) ==
    IF code \in {ParseError, MethodNotFound, InvalidParams}
    THEN "BadRequest"
    ELSE "Internal"

\* impl Into<ProtocolErrorType> for JsonRpcErrorCode
JsonRpcErrorCodeIntoType(code) ==
    IF code \in {ParseError, InvalidRequest, MethodNotFound, InvalidParams}
    THEN "BadRequest"
    ELSE "Internal"

\* A ProtocolError / SerializableProtocolError: category and description.
Err(error_type, description) ==
    [error_type |-> error_type, description |-> description]

(***************************************************************************)
(* JSON-RPC messages (jsonrpc.rs).                                         *)
(***************************************************************************)
\* Option<JsonRpcResponseError>
NoError == [present |-> FALSE, code |-> 0, message |-> ""]
ResponseError(code, message) == [present |-> TRUE, code |-> code, message |-> message]

\* Option<Value> of a result: "null" is None / Value::Null.
NoValue == "null"

\* get_result_and_error
get_result_and_error(ok, value, e) ==
    IF ok
    THEN [result |-> value, error |-> NoError]
    ELSE [result |-> NoValue,
          error |-> ResponseError(JsonRpcErrorCodeFromType(e.error_type), e.description)]

\* Option<Value> params of a notification: absent / null, or a
\* JsonRpcNotificationResultParams {result, error}.
NoParams == [present |-> FALSE, result |-> NoValue, error |-> NoError]
ResultParams(result, error) == [present |-> TRUE, result |-> result, error |-> error]

JsonRpcRequest(method, id) == [type |-> "Request", method |-> method, id |-> id]

\* JsonRpcResponse::new
JsonRpcResponseNew(ok, value, e, id) ==
    LET re == get_result_and_error(ok, value, e)
    IN  [type |-> "Response", result |-> re.result, error |-> re.error, id |-> id]

\* JsonRpcNotification::new
JsonRpcNotificationNew(method, params) ==
    [type |-> "Notification", method |-> method, params |-> params]

\* JsonRpcNotification::new_with_result_params
JsonRpcNotificationNewWithResultParams(ok, value, e, method) ==
    LET re == get_result_and_error(ok, value, e)
    IN  JsonRpcNotificationNew(method, ResultParams(re.result, re.error))

\* JsonRpcResponse::get_result / JsonRpcNotification::get_result:
\* Err(category from the code, message) when an error is present, else the
\* result value.
get_result(result, error) ==
    IF error.present
    THEN [ok |-> FALSE, value |-> NoValue,
          err |-> Err(JsonRpcErrorCodeIntoType(JsonRpcErrorCodeFromI32(error.code)),
                      error.message)]
    ELSE [ok |-> TRUE, value |-> result, err |-> Err("Internal", "")]

(***************************************************************************)
(* HashMap helpers.                                                        *)
(***************************************************************************)
\* HashMap::insert
MapInsert(m, k, v) == [x \in (DOMAIN m) \cup {k} |-> IF x = k THEN v ELSE m[x]]
\* A map that never forgets a key.
mutant_MapRemove(m, k) == m

\* HashMap::remove
MapRemove(m, k) == [x \in (DOMAIN m) \ {k} |-> m[x]]
EmptyMap == [x \in {} |-> 0]

(***************************************************************************)
(* Lines and JSON values (serde_json), and JsonRpcMessage::try_from.       *)
(***************************************************************************)
\* A serde_json::Value as far as the parsers look at it: null, an array, or
\* an object, of which each key is absent ("absent"), null ("null") or
\* holds a string ("str"), a number ("num") or a value of the type the
\* message structs expect there ("some"). An array has no keys; the
\* fields of JsonArrayOfResponse say what its elements are, in the order of
\* the fields of JsonRpcResponse.
JsonNull ==
    [t |-> "null", jsonrpc |-> "absent", method |-> "absent", id |-> "absent",
     result |-> "absent"]
JsonArray == [JsonNull EXCEPT !.t = "array"]
JsonArrayOfResponse == [JsonArray EXCEPT !.jsonrpc = "str", !.id = "num"]
JsonObjects ==
    [t : {"object"}, jsonrpc : {"absent", "str"}, method : {"absent", "null", "str"},
     id : {"absent", "null", "num", "str"}, result : {"absent", "some"}]
JsonValues == {JsonNull, JsonArray, JsonArrayOfResponse} \cup JsonObjects

\* A line of input: text that is no JSON, or the text of a JSON value.
NotJson == [JsonNull EXCEPT !.t = "garbage"]
Lines == {NotJson} \cup JsonValues

\* The lines the loops are given besides messages: garbage, `null`, `{}`,
\* and an object with a method and an id that lacks the jsonrpc member.
OddLines ==
    {NotJson, JsonNull, [JsonNull EXCEPT !.t = "object"],
     [JsonNull EXCEPT !.t = "object", !.method = "str", !.id = "num"]}

\* serde_json::from_str::<Value>(line).unwrap_or_default()
from_str_or_default(line) == IF line = NotJson THEN JsonNull ELSE line

\* A lookup that takes a key holding null for an absent key.
mutant_ValueGet(value, key) ==
    value.t = "object" /\ value[key] \notin {"absent", "null"}

\* Value::get(key).is_some(): the value is an object that has the key,
\* whatever the key holds.
ValueGet(value, key) == value.t = "object" /\ value[key] # "absent"

\* serde_json::from_value::<JsonRpcRequest / JsonRpcNotification /
\* JsonRpcResponse>(value) succeeds: jsonrpc and method must be strings, id
\* must be present (Option fields may be absent); an array is read element
\* by element in the order of the struct's fields, null is no struct.
from_value_ok(variant, value) ==
    /\ value.t \in {"object", "array"}
    /\ value.jsonrpc = "str"
    /\ variant \in {"Request", "Notification"} => value.method = "str"
    /\ variant \in {"Request", "Response"} => value.id # "absent"

\* impl TryFrom<serde_json::Value> for JsonRpcMessage: the variant chosen,
\* and whether its parse succeeded (Ok(message)) or failed (Err(e)).
try_from(value) ==
    LET variant == IF ValueGet(value, "method")
                   THEN IF ValueGet(value, "id") THEN "Request" ELSE "Notification"
                   ELSE "Response"
    IN  [ok |-> from_value_ok(variant, value), variant |-> variant]

(***************************************************************************)
(* State.                                                                  *)
(***************************************************************************)
VARIABLES
    \* ---- stdio client ----
    callState,          \* per call future: "idle", "awaiting", "done", "dropped"
    to_child,           \* submission channel to_child_tx -> to_child_rx (FIFO of trx)
    last_req_id,        \* StdioClientCommTask.last_req_id
    pending_reqs,       \* StdioClientCommTask.pending_reqs: id -> trx (its call)
    notification_links, \* StdioClientCommTask.notification_links: id -> link (its call)
    child_stdin,        \* messages written to the child's stdin, in order
    outcome,            \* per call: what the call future returned
    notification_rx,    \* per call: the unbounded item channel of its stream
    commRunning,        \* the comm task has not returned from run
    stdinBroken,        \* the child closed its stdin: write_all fails
    linesRead,          \* lines read so far that named a handed-out id or were requests
    \* ---- history of the client run (not read by any action's guard) ----
    assigned,           \* per call: the id handle_outgoing_request gave it (0: none yet)
    replyKind,          \* per id: the first message the child sent for it
    emitted,            \* per id: notification params the child emitted for it
    sentinelSeen,       \* per id: the child emitted a no-params notification for it
    lateSeen,           \* per id: a notification for it was read after that
    resolved,           \* per call: values the comm task sent on its oneshot
    afterTimeout,       \* per call: some call had timed out when it was submitted
    \* ---- stdio server ----
    srvRunning,         \* StdioServer::run is in its loop
    accepted,           \* requests handed to the service so far
    reqs,               \* per accepted request: its id and where its handling stands
    notification_stream_rx, \* channel of links sent by sub-tasks, not yet pushed
    stdout,             \* messages written to stdout, in order (src: the request)
    \* ---- history of the server run ----
    yielded,            \* per request: the items its handler's stream yielded
    \* ---- the pipes between a client and the server it spawned ----
    fed,                \* lines of child_stdin the server has read
    delivered,          \* messages of stdout the client has read
    \* ---- history of the paired run ----
    declined,           \* <<"request", id>> / <<"response", id>>: the request
                        \* converter / the response converter returned None for it
    \* ---- an error crossing the wire ----
    sent,               \* the ProtocolError the near side has to transmit
    received,           \* per wire: the error the far side reconstructed
    \* ---- HTTP server ----
    api_keys,           \* HttpServerConfig.api_keys
    http_calls,         \* per request: the HttpServerConnService::call future
    \* ---- HTTP client ----
    client_api_key,     \* HttpClientConfig.api_key
    client_call,        \* the future of one HttpClient::call
    \* ---- the stream notification_sse_stream returns ----
    sse_st,             \* "open"; "ended" once the stream returned None
    sse_buffer,         \* buffer: the bytes received and not yet drained
    sse_items,          \* the items yielded to the consumer, in order
    sse_chunks,         \* chunks received so far
    \* ---- history of the stream ----
    sse_lines,          \* the lines drained from the buffer, in order
    sse_body,           \* every byte the body has delivered, in order
    \* ---- lifetime of the stdio client, and the pipes of the stdio server ----
    clones,             \* StdioClient values alive: each holds _child and a to_child_tx
    childKilled,        \* the Child was dropped (kill_on_drop): the child is killed
    stdoutBroken,       \* the parent closed the server's stdout: write_all fails
    run_err,            \* StdioServer::run returned Err(e)
    \* ---- history of the comm task's loop ----
    events,             \* what the loops met: "read_error", "malformed", "recv_none",
                        \* "eof" (comm task), "server_malformed" (server)
    \* ---- one application of a conversion of jsonrpc.rs ----
    fn_in,              \* the argument: a line, an error category or an i32 code
    fn_out,             \* the value returned (done = FALSE: not applied yet)
    \* ---- the stdout of the stdio server, write by write ----
    out_lock,           \* tasks holding a guard of the Mutex<Stdout>
    out_pc,             \* per task: where it stands in output_message
    out_msg,            \* per task: messages it has serialized so far
    out_len,            \* per task: writes its serialized message needs
    out_pos,            \* per task: writes of that message done so far
    out_bytes           \* what reached stdout, one entry per write, in order

histVars ==
    <<assigned, replyKind, emitted, sentinelSeen, lateSeen, resolved, afterTimeout>>

clientVars ==
    <<callState, to_child, last_req_id, pending_reqs, notification_links,
      child_stdin, outcome, notification_rx, commRunning, stdinBroken,
      linesRead, histVars>>

serverVars == <<srvRunning, accepted, reqs, notification_stream_rx, stdout, yielded>>

pairVars == <<fed, delivered, declined>>

wireVars == <<sent, received>>

httpVars ==
    <<api_keys, http_calls, client_api_key, client_call,
      sse_st, sse_buffer, sse_items, sse_chunks, sse_lines, sse_body>>

ioVars == <<clones, childKilled, stdoutBroken, run_err, events>>

convVars == <<fn_in, fn_out>>

outVars == <<out_lock, out_pc, out_msg, out_len, out_pos, out_bytes>>

restVars == <<ioVars, convVars, outVars>>

vars == <<clientVars, serverVars, pairVars, wireVars, httpVars, restVars>>

Calls == 1..MaxCalls

\* ServiceResponse / Result values that travel on the oneshot channel.
\* rid is the id of the wire message the value was built from.
NoResult == [kind |-> "None", value |-> NoValue, err |-> Err("Internal", ""), rid |-> NullId]
Single(value, rid) == [kind |-> "Single", value |-> value, err |-> Err("Internal", ""), rid |-> rid]
Multiple(rid) == [kind |-> "Multiple", value |-> NoValue, err |-> Err("Internal", ""), rid |-> rid]
Failed(e, rid) == [kind |-> "Err", value |-> NoValue, err |-> e, rid |-> rid]

\* StdioClient::call: the three local errors
SendError == Err("Internal", "should be able to send stdio request to comm task")
TimedOut == Err("Internal", "timed out")
RecvError == Err("Internal", "should be able to recv response for stdio request from comm task")

\* stream items: Result<Response, ProtocolError>
ItemOk(value) == [ok |-> TRUE, value |-> value, err |-> Err("Internal", "")]
ItemErr(e) == [ok |-> FALSE, value |-> NoValue, err |-> e]

(***************************************************************************)
(* What the child may write on its stdout.                                 *)
(***************************************************************************)
Payloads == {"a"}
WireErrors == {ResponseError(InvalidRequest, "bad")}
JsonIds == {NumId(n) : n \in (-1)..MaxCalls} \cup {StrId(1), NullId}
MethodStrings == {U64ToString(n) : n \in 0..MaxCalls} \cup {<<"x">>, <<"0", "1">>}

ChildResponses ==
    {[type |-> "Response", result |-> r, error |-> NoError, id |-> j] :
        r \in Payloads, j \in JsonIds}
    \cup {[type |-> "Response", result |-> NoValue, error |-> e, id |-> j] :
        e \in WireErrors, j \in JsonIds}
ChildNotifications ==
    {JsonRpcNotificationNew(m, NoParams) : m \in MethodStrings}
    \cup {JsonRpcNotificationNew(m, ResultParams(r, NoError)) :
        m \in MethodStrings, r \in Payloads}
    \cup {JsonRpcNotificationNew(m, ResultParams(NoValue, e)) :
        m \in MethodStrings, e \in WireErrors}
ChildRequests == {JsonRpcRequest(<<"p">>, j) : j \in {StrId(1), NumId(1)}}

\* The user's ResponseJsonRpcConvert::from_jsonrpc_message, as the example
\* converter is built: get_result()? first, then the converter accepts the
\* value (conv = "some") or declines it (conv = "none", Ok(None)).
Conversions == {"some", "none"}
from_jsonrpc_message(conv, result, error) ==
    LET r == get_result(result, error)
    IN  IF ~r.ok THEN [kind |-> "err", value |-> NoValue, err |-> r.err]
        ELSE IF conv = "none" THEN [kind |-> "none", value |-> NoValue, err |-> r.err]
        ELSE [kind |-> "some", value |-> r.value, err |-> r.err]

\* The converter's choice matters only for a message that carries no error.
ConversionsFor(error) == IF error.present THEN {"some"} ELSE Conversions

(***************************************************************************)
(* StdioClient::call (stdio/client/mod.rs)                                 *)
(*                                                                         *)
(* A call future that awaits timeout(timeout_duration, response_rx)        *)
(* returns as soon as its oneshot holds a value or is closed (the channel  *)
(* is polled before the timer); the model lets it return in the step that  *)
(* resolves the channel.                                                   *)
(***************************************************************************)
\* call, up to the first await: create the oneshot, send the trx to the
\* comm task; the send fails when the comm task has dropped to_child_rx.
Submit(c) ==
    /\ callState[c] = "idle"
    /\ \A d \in 1..(c - 1) : callState[d] # "idle"
    /\ IF commRunning
       THEN /\ to_child' = Append(to_child, c)
            /\ callState' = [callState EXCEPT ![c] = "awaiting"]
            /\ outcome' = outcome
       ELSE /\ to_child' = to_child
            /\ callState' = [callState EXCEPT ![c] = "done"]
            /\ outcome' = [outcome EXCEPT ![c] = Failed(SendError, NullId)]
    /\ afterTimeout' =
          [afterTimeout EXCEPT ![c] = \E d \in Calls : outcome[d] = Failed(TimedOut, NullId)]
    /\ UNCHANGED <<last_req_id, pending_reqs, notification_links, child_stdin,
                   notification_rx, commRunning, stdinBroken, linesRead, assigned,
                   replyKind, emitted, sentinelSeen, lateSeen, resolved>>

\* A timeout that also stops the comm task.
mutant_Timeout(c) ==
    /\ callState[c] = "awaiting"
    /\ callState' = [callState EXCEPT ![c] = "done"]
    /\ outcome' = [outcome EXCEPT ![c] = Failed(TimedOut, NullId)]
    /\ commRunning' = FALSE
    /\ UNCHANGED <<to_child, last_req_id, pending_reqs, notification_links,
                   child_stdin, notification_rx, stdinBroken, linesRead, histVars>>

\* The timer of timeout(...) elapses while the oneshot is still empty: the
\* future returns the "timed out" error and drops response_rx. Nothing of
\* the comm task changes.
Timeout(c) ==
    /\ callState[c] = "awaiting"
    /\ callState' = [callState EXCEPT ![c] = "done"]
    /\ outcome' = [outcome EXCEPT ![c] = Failed(TimedOut, NullId)]
    /\ UNCHANGED <<to_child, last_req_id, pending_reqs, notification_links,
                   child_stdin, notification_rx, commRunning, stdinBroken,
                   linesRead, histVars>>

\* A drop that also takes the call's entry out of pending_reqs.
mutant_Drop(c) ==
    /\ callState[c] = "awaiting"
    /\ callState' = [callState EXCEPT ![c] = "dropped"]
    /\ pending_reqs' = [k \in {q \in DOMAIN pending_reqs : pending_reqs[q] # c} |->
                            pending_reqs[k]]
    /\ UNCHANGED <<to_child, last_req_id, notification_links, child_stdin, outcome,
                   notification_rx, commRunning, stdinBroken, linesRead, histVars>>

\* The caller drops the call future while it awaits: response_rx is dropped.
Drop(c) ==
    /\ callState[c] = "awaiting"
    /\ callState' = [callState EXCEPT ![c] = "dropped"]
    /\ UNCHANGED <<to_child, last_req_id, pending_reqs, notification_links,
                   child_stdin, outcome, notification_rx, commRunning,
                   stdinBroken, linesRead, histVars>>

(***************************************************************************)
(* StdioClientCommTask (stdio/client/comm.rs)                              *)
(***************************************************************************)
\* The receiving half of call c's oneshot is alive while its future awaits.
ReceiverAlive(c) == callState[c] = "awaiting"

\* response_tx.send(v).ok() for each (call, value) of sends, and the drop of
\* the trx of each call in drops without a send: a live receiver returns
\* the value (RecvError for a dropped sender); a dead one makes the send
\* fail, and the value is discarded.
OneshotEffects(sends, drops) ==
    /\ callState' =
          [c \in Calls |->
              IF ReceiverAlive(c) /\ (c \in DOMAIN sends \/ c \in drops)
              THEN "done" ELSE callState[c]]
    /\ outcome' =
          [c \in Calls |->
              IF ReceiverAlive(c) /\ c \in DOMAIN sends THEN sends[c]
              ELSE IF ReceiverAlive(c) /\ c \in drops THEN Failed(RecvError, NullId)
              ELSE outcome[c]]
    /\ resolved' = [c \in Calls |-> IF c \in DOMAIN sends THEN resolved[c] + 1 ELSE resolved[c]]

OneshotSend(c, v) == OneshotEffects(MapInsert(EmptyMap, c, v), {})
OneshotDrop(c) == OneshotEffects(EmptyMap, {c})
OneshotUntouched == OneshotEffects(EmptyMap, {})

\* output_message: serialise, write_all(...).await.ok(); a write error is ignored.
output_message(message) ==
    IF stdinBroken THEN child_stdin ELSE Append(child_stdin, message)

\* A client that reports its refusal as an Internal error.
mutant_ClientRequestUnsupported ==
    Err("Internal", "client does not support serving request")

\* StdioError::ClientRequestUnsupported.into()
ClientRequestUnsupported == Err("BadRequest", "client does not support serving request")

\* An id counter whose first id is 0.
mutant_NewRequestIdFromZero == IF assigned = [c \in Calls |-> 0] THEN 0 ELSE last_req_id + 1

\* An id counter that stops advancing after the first request.
mutant_NewRequestId == IF last_req_id = 0 THEN 1 ELSE last_req_id

\* let id = self.last_req_id + 1; ... self.last_req_id = id;
NewRequestId == last_req_id + 1

\* the select! branch to_child_rx.recv() => Some(req_trx): handle_outgoing_request
handle_outgoing_request ==
    /\ commRunning
    /\ to_child # <<>>
    /\ LET c == Head(to_child)
           id == NewRequestId
       IN  /\ last_req_id' = id
           /\ pending_reqs' = MapInsert(pending_reqs, id, c)
           /\ child_stdin' = output_message(JsonRpcRequest(<<"m">>, NumId(id)))
           /\ assigned' = [assigned EXCEPT ![c] = id]
    /\ to_child' = Tail(to_child)
    /\ UNCHANGED <<callState, notification_links, outcome, notification_rx,
                   commRunning, stdinBroken, linesRead, replyKind, emitted,
                   sentinelSeen, lateSeen, resolved, afterTimeout>>

\* A line was read (bytes_read > 0) and parsed into a message. The line is
\* counted when it names the id of a submitted call or is a request.
LineRead(counted) ==
    /\ commRunning
    /\ IF counted
       THEN linesRead < MaxLines /\ linesRead' = linesRead + 1
       ELSE linesRead' = linesRead

NamesCall(id) == id \in 1..last_req_id

\* A comm task that stops at a line it cannot parse.
mutant_handle_parse_failure ==
    /\ LineRead(FALSE)
    /\ commRunning' = FALSE
    /\ UNCHANGED <<callState, to_child, last_req_id, pending_reqs,
                   notification_links, child_stdin, outcome, notification_rx,
                   stdinBroken, histVars>>

\* The line is not JSON or not a JSON-RPC message: logged, dropped.
handle_parse_failure ==
    /\ LineRead(FALSE)
    /\ UNCHANGED <<callState, to_child, last_req_id, pending_reqs,
                   notification_links, child_stdin, outcome, notification_rx,
                   commRunning, stdinBroken, histVars>>

\* JsonRpcMessage::Request: handle_incoming_request
handle_incoming_request(request) ==
    /\ LineRead(TRUE)
    /\ child_stdin' = output_message(
            JsonRpcResponseNew(FALSE, NoValue, ClientRequestUnsupported, request.id))
    /\ UNCHANGED <<callState, to_child, last_req_id, pending_reqs,
                   notification_links, outcome, notification_rx, commRunning,
                   stdinBroken, histVars>>

\* History: the kind of the first message the child sent for a handed-out id.
RecordReply(id, kind) ==
    replyKind' = IF NamesCall(id) /\ replyKind[id] = "none"
                 THEN [replyKind EXCEPT ![id] = kind]
                 ELSE replyKind

\* The caller of the call with this id holds, or can still obtain, its stream.
StreamVisible(id) ==
    \E c \in Calls :
        /\ assigned[c] = id
        /\ \/ callState[c] = "awaiting"
           \/ callState[c] = "done" /\ outcome[c].kind = "Multiple"

\* History: the notifications the child emitted for a streaming call (one
\* whose first reply was a notification and whose caller can see the
\* stream), up to the first no-params notification; lateSeen marks a
\* notification read after that one.
RecordEmitted(id, params) ==
    IF NamesCall(id) /\ replyKind[id] # "response"
    THEN IF sentinelSeen[id]
         THEN /\ lateSeen' = [lateSeen EXCEPT ![id] = TRUE]
              /\ UNCHANGED <<emitted, sentinelSeen>>
         ELSE IF params.present
         THEN /\ emitted' = IF StreamVisible(id)
                            THEN [emitted EXCEPT ![id] = Append(@, params)]
                            ELSE emitted
              /\ UNCHANGED <<sentinelSeen, lateSeen>>
         ELSE /\ sentinelSeen' = [sentinelSeen EXCEPT ![id] = TRUE]
              /\ UNCHANGED <<emitted, lateSeen>>
    ELSE UNCHANGED <<emitted, sentinelSeen, lateSeen>>

\* A lookup that takes every reply to belong to the newest request.
mutant_ResponseKey(response) ==
    IF IdAsU64(response.id) = 0 THEN 0 ELSE last_req_id

\* The key handle_response looks up in pending_reqs.
ResponseKey(response) == IdAsU64(response.id)

\* A lookup that leaves the entry in the map.
mutant_PendingAfterResponse(key) == pending_reqs

\* What handle_response leaves of pending_reqs once the entry was found.
PendingAfterResponse(key) == MapRemove(pending_reqs, key)

\* JsonRpcMessage::Response: handle_response
handle_response(response, conv) ==
    /\ LineRead(NamesCall(IdAsU64(response.id)))
    /\ RecordReply(IdAsU64(response.id), "response")
    /\ LET key == ResponseKey(response)
       IN  IF key \notin DOMAIN pending_reqs
           THEN /\ pending_reqs' = pending_reqs
                /\ OneshotUntouched
           ELSE LET c == pending_reqs[key]
                    r == from_jsonrpc_message(conv, response.result, response.error)
                IN  /\ pending_reqs' = PendingAfterResponse(key)
                    /\ CASE r.kind = "none" -> OneshotDrop(c)
                         [] r.kind = "some" -> OneshotSend(c, Single(r.value, response.id))
                         [] r.kind = "err" -> OneshotSend(c, Failed(r.err, response.id))
    /\ UNCHANGED <<to_child, last_req_id, notification_links, child_stdin,
                   notification_rx, commRunning, stdinBroken, assigned,
                   emitted, sentinelSeen, lateSeen, afterTimeout>>

\* A removal of links that leaves the streams open.
mutant_CloseLinks(rx, links, ids) == rx

\* Dropping the links of ids drops their notification_tx: a stream that is
\* still read ends after the items already sent.
CloseLinks(rx, links, ids) ==
    [c \in Calls |->
        IF (\E i \in ids : i \in DOMAIN links /\ links[i] = c) /\ rx[c].st = "live"
        THEN [rx[c] EXCEPT !.st = "closed"]
        ELSE rx[c]]

\* An end of stream that leaves the link in the map.
mutant_LinksAfterSentinel(links, id) == links

\* self.notification_links.remove(&id) on a notification without params
LinksAfterSentinel(links, id) == MapRemove(links, id)

\* link.notification_tx.send(result).ok() on the channel read by call c
NotificationSend(rx, c, item) ==
    [rx EXCEPT ![c] = IF @.st = "live" THEN [@ EXCEPT !.items = Append(@, item)] ELSE @]

\* JsonRpcMessage::Notification: handle_notification
handle_notification(notification, conv) ==
    /\ LineRead(NamesCall(ParseU64(notification.method)))
    /\ RecordReply(ParseU64(notification.method), "stream")
    /\ LET id == ParseU64(notification.method)
           migrate == id \in DOMAIN pending_reqs
           \* first half: if let Some(trx) = self.pending_reqs.remove(&id)
           pending1 == IF migrate THEN MapRemove(pending_reqs, id) ELSE pending_reqs
           links1 == IF migrate
                     THEN MapInsert(notification_links, id, pending_reqs[id])
                     ELSE notification_links
           rx1 == IF migrate
                  THEN [notification_rx EXCEPT ![pending_reqs[id]] =
                          [st |-> IF ReceiverAlive(pending_reqs[id]) THEN "live" ELSE "gone",
                           items |-> <<>>]]
                  ELSE notification_rx
       IN  /\ IF migrate
              THEN OneshotSend(pending_reqs[id], Multiple(NumId(id)))
              ELSE OneshotUntouched
           /\ RecordEmitted(id, notification.params)
           \* second half: match self.notification_links.get(&id)
           /\ IF id \notin DOMAIN links1
              THEN /\ pending_reqs' = pending1
                   /\ notification_links' = links1
                   /\ notification_rx' = rx1
              ELSE IF notification.params.present
              THEN LET r == from_jsonrpc_message(conv, notification.params.result,
                                                 notification.params.error)
                   IN  /\ pending_reqs' = pending1
                       /\ notification_links' = links1
                       /\ notification_rx' =
                            CASE r.kind = "none" -> rx1
                              [] r.kind = "some" ->
                                    NotificationSend(rx1, links1[id], ItemOk(r.value))
                              [] r.kind = "err" ->
                                    NotificationSend(rx1, links1[id], ItemErr(r.err))
              ELSE /\ notification_links' = LinksAfterSentinel(links1, id)
                   /\ pending_reqs' = MapRemove(pending1, id)
                   /\ notification_rx' =
                        CloseLinks(rx1, links1, {id} \ DOMAIN notification_links')
    /\ UNCHANGED <<to_child, last_req_id, child_stdin, commRunning, stdinBroken,
                   assigned, afterTimeout>>

\* A comm task that returns and leaks what it holds: the senders of the
\* oneshots and of the streams stay alive.
mutant_handle_eof ==
    /\ commRunning
    /\ commRunning' = FALSE
    /\ UNCHANGED <<callState, to_child, last_req_id, pending_reqs, notification_links,
                   child_stdin, outcome, notification_rx, stdinBroken, linesRead,
                   histVars>>

\* read_line returned Ok(0): the child closed its stdout; run returns and
\* the task's maps and to_child_rx are dropped with everything they hold.
handle_eof ==
    /\ commRunning
    /\ commRunning' = FALSE
    /\ OneshotEffects(EmptyMap,
          {pending_reqs[k] : k \in DOMAIN pending_reqs}
          \cup {to_child[q] : q \in 1..Len(to_child)})
    /\ pending_reqs' = EmptyMap
    /\ notification_links' = EmptyMap
    /\ notification_rx' = CloseLinks(notification_rx, notification_links,
                                      DOMAIN notification_links)
    /\ to_child' = <<>>
    /\ UNCHANGED <<last_req_id, child_stdin, stdinBroken, linesRead, assigned,
                   replyKind, emitted, sentinelSeen, lateSeen, afterTimeout>>

\* The child closes its stdin (or exits): later writes fail.
ChildClosesStdin ==
    /\ ~stdinBroken
    /\ stdinBroken' = TRUE
    /\ UNCHANGED <<callState, to_child, last_req_id, pending_reqs,
                   notification_links, child_stdin, outcome, notification_rx,
                   commRunning, linesRead, histVars>>

ClientInit ==
    /\ callState = [c \in Calls |-> "idle"]
    /\ to_child = <<>>
    /\ last_req_id = 0
    /\ pending_reqs = EmptyMap
    /\ notification_links = EmptyMap
    /\ child_stdin = <<>>
    /\ outcome = [c \in Calls |-> NoResult]
    /\ notification_rx = [c \in Calls |-> [st |-> "none", items |-> <<>>]]
    /\ commRunning = TRUE
    /\ stdinBroken = FALSE
    /\ linesRead = 0
    /\ assigned = [c \in Calls |-> 0]
    /\ replyKind = [i \in Calls |-> "none"]
    /\ emitted = [i \in Calls |-> <<>>]
    /\ sentinelSeen = [i \in Calls |-> FALSE]
    /\ lateSeen = [i \in Calls |-> FALSE]
    /\ resolved = [c \in Calls |-> 0]
    /\ afterTimeout = [c \in Calls |-> FALSE]

ClientNext ==
    \/ \E c \in Calls : Submit(c)
    \/ \E c \in Calls : Timeout(c)
    \/ \E c \in Calls : Drop(c)
    \/ handle_outgoing_request
    \/ handle_parse_failure
    \/ \E m \in ChildRequests : handle_incoming_request(m)
    \/ \E m \in ChildResponses : \E conv \in ConversionsFor(m.error) :
            handle_response(m, conv)
    \/ \E m \in ChildNotifications : \E conv \in ConversionsFor(m.params.error) :
            handle_notification(m, conv)
    \/ handle_eof
    \/ ChildClosesStdin

(***************************************************************************)
(* StdioServer (stdio/server/mod.rs, stdio/server/comm.rs)                 *)
(***************************************************************************)
Reqs == 1..MaxReqs

\* What the parent may write on the server's stdin: requests with any JSON
\* id, and lines that are no request (a response, a notification, garbage).
ServerJsonIds == {NumId(1), NumId(2), StrId(1), NullId}
ParentLines ==
    {JsonRpcRequest(<<"m">>, j) : j \in ServerJsonIds}
    \cup {[type |-> "Response", result |-> "a", error |-> NoError, id |-> NumId(1)],
          JsonRpcNotificationNew(<<"1">>, NoParams),
          [type |-> "Invalid"]}

\* The user's RequestJsonRpcConvert::from_jsonrpc_request: Ok(Some(request)),
\* Ok(None) for an unknown method, or Err for invalid params.
RequestConversions == {"some", "none", "err"}

\* Response values of the user's protocol: those its converter serialises
\* as a JSON-RPC Response and those it serialises as a Notification.
SingleValues == {"a"}
StreamValues == {"s"}

\* The user's ResponseJsonRpcConvert::into_jsonrpc_message(response, id),
\* as the example converter is built: a Notification whose method is
\* id.to_string() for a stream variant, a Response with the id otherwise.
into_jsonrpc_message(response, id) ==
    IF response \in StreamValues
    THEN JsonRpcNotificationNewWithResultParams(TRUE, response, Err("Internal", ""),
                                                U64ToString(id))
    ELSE JsonRpcResponseNew(TRUE, response, Err("Internal", ""), NumId(id))

\* A ServiceError (Box<dyn Error>): a boxed ProtocolError, or another error
\* such as tower's Elapsed.
BoxedProtocolError(e) == [protocol |-> TRUE, e |-> e]
Elapsed == [protocol |-> FALSE, e |-> Err("Internal", "request timed out")]

\* impl From<Box<dyn Error + Send + Sync>> for ProtocolError
ProtocolErrorFromBox(error) ==
    IF error.protocol THEN error.e ELSE Err("Internal", error.e.description)

\* What result_future.await returns in the sub-task: the handler's
\* response, the handler's error, or Elapsed from the Timeout layer.
HandlerErrors == {Err("NotFound", "e")}
HandlerResults ==
    {[kind |-> "Single", value |-> v, error |-> Elapsed] : v \in SingleValues}
    \cup {[kind |-> "Multiple", value |-> NoValue, error |-> Elapsed]}
    \cup {[kind |-> "Err", value |-> NoValue, error |-> BoxedProtocolError(e)] :
            e \in HandlerErrors}
    \cup {[kind |-> "Timeout", value |-> NoValue, error |-> Elapsed]}

\* Items of a handler's stream: Result<Response, ProtocolError>
StreamItems == {ItemOk(v) : v \in StreamValues} \cup {ItemErr(e) : e \in HandlerErrors}

\* An output that writes every message twice.
mutant_ServerOutput(message, r) ==
    stdout \o <<[msg |-> message, src |-> r], [msg |-> message, src |-> r]>>

\* output_message: lock stdout, write the serialised message with write_all
\* (.ok(): a write error is ignored)
ServerOutput(message, r) ==
    IF stdoutBroken THEN stdout ELSE Append(stdout, [msg |-> message, src |-> r])

\* A server that never reads the id of the request.
mutant_RequestId(jsonrpc_request) == 0

\* let id = jsonrpc_request.id.as_u64().unwrap_or_default();
RequestId(jsonrpc_request) == IdAsU64(jsonrpc_request.id)

\* A server that awaits each handler in the main loop: no line is read while
\* a handler is running.
mutant_handle_request_serial(line, rconv) ==
    /\ srvRunning
    /\ \A r \in Reqs : reqs[r].st # "running"
    /\ IF line.type = "Request" /\ rconv = "some"
       THEN /\ accepted < MaxReqs
            /\ accepted' = accepted + 1
            /\ reqs' = [reqs EXCEPT ![accepted + 1] =
                          [st |-> "running", jid |-> line.id, id |-> RequestId(line)]]
       ELSE UNCHANGED <<accepted, reqs>>
    /\ UNCHANGED <<srvRunning, notification_stream_rx, stdout, yielded, clientVars>>

\* A server that answers a request its converter declined.
mutant_handle_request(line, rconv) ==
    /\ srvRunning
    /\ IF line.type = "Request" /\ rconv = "some"
       THEN /\ accepted < MaxReqs
            /\ accepted' = accepted + 1
            /\ reqs' = [reqs EXCEPT ![accepted + 1] =
                          [st |-> "running", jid |-> line.id, id |-> RequestId(line)]]
            /\ UNCHANGED stdout
       ELSE /\ UNCHANGED <<accepted, reqs>>
            /\ stdout' = IF line.type = "Request" /\ rconv = "none"
                         THEN ServerOutput(
                                JsonRpcResponseNew(FALSE, NoValue,
                                    Err("NotFound", "404 Not Found"),
                                    NumId(RequestId(line))), 0)
                         ELSE stdout
    /\ UNCHANGED <<srvRunning, notification_stream_rx, yielded, clientVars>>

\* the select! branch read_line => n > 0: handle_request
handle_request(line, rconv) ==
    /\ srvRunning
    /\ IF line.type = "Request" /\ rconv = "some"
       THEN /\ accepted < MaxReqs
            /\ accepted' = accepted + 1
            /\ reqs' = [reqs EXCEPT ![accepted + 1] =
                          [st |-> "running", jid |-> line.id, id |-> RequestId(line)]]
       ELSE UNCHANGED <<accepted, reqs>>
    /\ UNCHANGED <<srvRunning, notification_stream_rx, stdout, yielded, clientVars>>

\* The sub-task spawned by handle_response_future, from the point where
\* result_future.await returned result. After Elapsed the handler's future
\* is gone with the Timeout layer's future; after run returned the channel
\* of links is closed and the send of a link fails.
handle_response_future(r, result) ==
    /\ reqs[r].st = "running"
    /\ CASE result.kind = "Single" ->
              /\ stdout' = ServerOutput(into_jsonrpc_message(result.value, reqs[r].id), r)
              /\ reqs' = [reqs EXCEPT ![r].st = "single"]
              /\ UNCHANGED notification_stream_rx
         [] result.kind = "Multiple" ->
              /\ notification_stream_rx' =
                    IF srvRunning THEN Append(notification_stream_rx, r)
                    ELSE notification_stream_rx
              /\ reqs' = [reqs EXCEPT ![r].st = IF srvRunning THEN "queued" ELSE "lost"]
              /\ UNCHANGED stdout
         [] result.kind \in {"Err", "Timeout"} ->
              /\ stdout' = ServerOutput(
                    JsonRpcResponseNew(FALSE, NoValue, ProtocolErrorFromBox(result.error),
                                       NumId(reqs[r].id)), r)
              /\ reqs' = [reqs EXCEPT ![r].st =
                            IF result.kind = "Err" THEN "failed" ELSE "timedout"]
              /\ UNCHANGED notification_stream_rx
    /\ UNCHANGED <<srvRunning, accepted, yielded, clientVars>>

\* the select! branch notification_stream_rx.recv(): notification_streams.push
push_notification_stream ==
    /\ srvRunning
    /\ notification_stream_rx # <<>>
    /\ reqs' = [reqs EXCEPT ![Head(notification_stream_rx)].st = "streaming"]
    /\ notification_stream_rx' = Tail(notification_stream_rx)
    /\ UNCHANGED <<srvRunning, accepted, stdout, yielded, clientVars>>

\* What the handler's stream may return to a poll: an item or its end. A
\* stream that has ended returns its end again when polled again (the
\* streams handlers return here, async_stream and channel receivers, do).
NoItem == [end |-> TRUE, item |-> ItemOk(NoValue)]
SomeItem(item) == [end |-> FALSE, item |-> item]
InnerPolls(r) ==
    IF reqs[r].st = "streaming" /\ Len(yielded[r]) < MaxItems
    THEN {NoItem} \cup {SomeItem(item) : item \in StreamItems}
    ELSE {NoItem}

\* A link that does not remember that it has announced its end.
mutant_poll_next(is_complete, inner) ==
    IF ~inner.end THEN "item" ELSE "sentinel"

\* ServerNotificationLink::poll_next, for a stream that is Ready: an item,
\* the end-of-stream marker (result: None) once, then Ready(None).
poll_next(is_complete, inner) ==
    IF ~inner.end THEN "item"
    ELSE IF is_complete THEN "end" ELSE "sentinel"

\* StdioServer::handle_notification: the message for one IdentifiedNotification
NotificationMessage(id, polled, inner) ==
    IF polled = "sentinel" THEN JsonRpcNotificationNew(U64ToString(id), NoParams)
    ELSE IF inner.item.ok THEN into_jsonrpc_message(inner.item.value, id)
    ELSE JsonRpcNotificationNewWithResultParams(FALSE, NoValue, inner.item.err,
                                                U64ToString(id))

\* the select! branch notification_streams.next(): the link of request r is
\* polled and is Ready; handle_notification writes what it returned, and
\* SelectAll drops a link that returned Ready(None).
next_notification(r, inner) ==
    /\ srvRunning
    /\ reqs[r].st \in {"streaming", "complete"}
    /\ LET polled == poll_next(reqs[r].st = "complete", inner)
       IN  CASE polled = "item" ->
                  /\ yielded' = [yielded EXCEPT ![r] = Append(@, inner.item)]
                  /\ stdout' = ServerOutput(NotificationMessage(reqs[r].id, polled, inner), r)
                  /\ UNCHANGED reqs
             [] polled = "sentinel" ->
                  /\ stdout' = ServerOutput(NotificationMessage(reqs[r].id, polled, inner), r)
                  /\ reqs' = [reqs EXCEPT ![r].st = "complete"]
                  /\ UNCHANGED yielded
             [] polled = "end" ->
                  /\ reqs' = [reqs EXCEPT ![r].st = "removed"]
                  /\ UNCHANGED <<stdout, yielded>>
    /\ UNCHANGED <<srvRunning, accepted, notification_stream_rx, clientVars>>

\* A run that leaves its loop only when nothing is in flight.
mutant_server_eof ==
    /\ srvRunning
    /\ \A r \in Reqs : reqs[r].st \notin {"running", "queued", "streaming", "complete"}
    /\ srvRunning' = FALSE
    /\ UNCHANGED <<accepted, reqs, notification_stream_rx, stdout, yielded, clientVars>>

\* read_line returned Ok(0): run breaks out of its loop and returns Ok(());
\* the channel of links and the set of streams are dropped.
server_eof ==
    /\ srvRunning
    /\ srvRunning' = FALSE
    /\ UNCHANGED <<accepted, reqs, notification_stream_rx, stdout, yielded, clientVars>>

ServerInit ==
    /\ srvRunning = TRUE
    /\ accepted = 0
    /\ reqs = [r \in Reqs |-> [st |-> "unread", jid |-> NullId, id |-> 0]]
    /\ notification_stream_rx = <<>>
    /\ stdout = <<>>
    /\ yielded = [r \in Reqs |-> <<>>]

ServerNext ==
    \/ \E line \in ParentLines : \E rconv \in RequestConversions :
            handle_request(line, rconv)
    \/ \E r \in Reqs : \E result \in HandlerResults : handle_response_future(r, result)
    \/ push_notification_stream
    \/ \E r \in Reqs : \E inner \in InnerPolls(r) : next_notification(r, inner)
    \/ server_eof

(***************************************************************************)
(* A client and the server it spawned as its child: the server reads what  *)
(* the client wrote to child_stdin, the client reads what the server wrote *)
(* to stdout. Both ends stay up (no end of file on either pipe).           *)
(***************************************************************************)
\* The server's read_line returns the next line the client wrote.
server_read_line(rconv) ==
    /\ fed < Len(child_stdin)
    /\ handle_request(child_stdin[fed + 1], rconv)
    /\ fed' = fed + 1
    /\ declined' = IF rconv = "none"
                   THEN declined \cup {<<"request", IdAsU64(child_stdin[fed + 1].id)>>}
                   ELSE declined
    /\ UNCHANGED delivered

\* The client's read_line returns the next message the server wrote.
client_read_line(conv) ==
    /\ delivered < Len(stdout)
    /\ LET message == stdout[delivered + 1].msg
       IN  IF message.type = "Response"
           THEN conv \in ConversionsFor(message.error) /\ handle_response(message, conv)
           ELSE /\ conv \in ConversionsFor(message.params.error)
                /\ handle_notification(message, conv)
    /\ delivered' = delivered + 1
    /\ declined' = IF stdout[delivered + 1].msg.type = "Response" /\ conv = "none"
                   THEN declined \cup {<<"response", IdAsU64(stdout[delivered + 1].msg.id)>>}
                   ELSE declined
    /\ UNCHANGED <<serverVars, fed>>

PairInit ==
    /\ fed = 0
    /\ delivered = 0
    /\ declined = {}

PairNext ==
    \/ \E c \in Calls : Submit(c) /\ UNCHANGED <<serverVars, pairVars>>
    \/ \E c \in Calls : Timeout(c) /\ UNCHANGED <<serverVars, pairVars>>
    \/ \E c \in Calls : Drop(c) /\ UNCHANGED <<serverVars, pairVars>>
    \/ handle_outgoing_request /\ UNCHANGED <<serverVars, pairVars>>
    \/ \E rconv \in RequestConversions : server_read_line(rconv)
    \/ \E r \in Reqs : \E result \in HandlerResults :
            handle_response_future(r, result) /\ UNCHANGED pairVars
    \/ push_notification_stream /\ UNCHANGED pairVars
    \/ \E r \in Reqs : \E inner \in InnerPolls(r) :
            next_notification(r, inner) /\ UNCHANGED pairVars
    \/ \E conv \in Conversions : client_read_line(conv)

(***************************************************************************)
(* HTTP: status codes, bodies and error responses (http/mod.rs,            *)
(* http/server/mod.rs, http/client/mod.rs, http/util.rs).                  *)
(***************************************************************************)
\* A status map that answers a missing resource with 500.
mutant_StatusCodeFromType(error_type) ==
    CASE error_type = "BadRequest" -> 400
      [] error_type = "Unauthorized" -> 401
      [] error_type = "HttpMethodNotAllowed" -> 405
      [] OTHER -> 500

\* impl Into<StatusCode> for ProtocolErrorType
StatusCodeFromType(error_type) ==
    CASE error_type = "BadRequest" -> 400
      [] error_type = "Unauthorized" -> 401
      [] error_type = "Internal" -> 500
      [] error_type = "NotFound" -> 404
      [] error_type = "HttpMethodNotAllowed" -> 405

\* A status map that reads 401 as a bad request.
mutant_TypeFromStatusCode(code) ==
    CASE code = 400 -> "BadRequest"
      [] code = 401 -> "BadRequest"
      [] code = 404 -> "NotFound"
      [] code = 405 -> "HttpMethodNotAllowed"
      [] OTHER -> "Internal"

\* impl From<StatusCode> for ProtocolErrorType
TypeFromStatusCode(code) ==
    CASE code = 400 -> "BadRequest"
      [] code = 401 -> "Unauthorized"
      [] code = 500 -> "Internal"
      [] code = 404 -> "NotFound"
      [] code = 405 -> "HttpMethodNotAllowed"
      [] OTHER -> "Internal"

\* StatusCode::to_string: the number and the canonical reason
StatusToString(code) ==
    CASE code = 400 -> "400 Bad Request"
      [] code = 401 -> "401 Unauthorized"
      [] code = 404 -> "404 Not Found"
      [] code = 405 -> "405 Method Not Allowed"
      [] code = 500 -> "500 Internal Server Error"
      [] OTHER -> "other status"


\* generic_error
generic_error(error_type) ==
    Err(error_type, StatusToString(StatusCodeFromType(error_type)))

\* An HTTP body: a JSON object (with or without a string member "error"),
\* bytes that are no JSON, or a body whose transfer fails.
\* t is "json", "text" or "broken".
Body(t, has_error, error) == [t |-> t, has_error |-> has_error, error |-> error]

HttpResponse(status, body) == [status |-> status, body |-> body]

\* serialize_to_http_response(&ProtocolHttpError {error}, status)
serialize_to_http_response(error, status) ==
    HttpResponse(status, Body("json", TRUE, error))

\* An error response that carries no description.
mutant_ProtocolErrorIntoHttpResponse(e) ==
    serialize_to_http_response("error", StatusCodeFromType(e.error_type))

\* impl Into<HttpResponse<Body>> for ProtocolError
ProtocolErrorIntoHttpResponse(e) ==
    serialize_to_http_response(e.description, StatusCodeFromType(e.error_type))

\* parse_response::<ProtocolHttpError>: Internal when the body cannot be
\* read, BadRequest when it is not the JSON of a ProtocolHttpError.
parse_response(response) ==
    IF response.body.t = "broken"
    THEN [ok |-> FALSE, error |-> "", err |-> Err("Internal", "error reading a body from connection")]
    ELSE IF response.body.t = "json" /\ response.body.has_error
    THEN [ok |-> TRUE, error |-> response.body.error, err |-> Err("Internal", "")]
    ELSE [ok |-> FALSE, error |-> "", err |-> Err("BadRequest", "expected value")]

\* HttpClient::call on a status that is no success: ProtocolError
\* {error_type: status.into(), error: parse_response(response).await?}
ErrorFromHttpResponse(response) ==
    LET parsed == parse_response(response)
    IN  IF parsed.ok
        THEN Err(TypeFromStatusCode(response.status), parsed.error)
        ELSE parsed.err

(***************************************************************************)
(* Server-sent events (HttpNotificationPayload; notification_sse_response  *)
(* and notification_sse_stream of http/util.rs). Text is a sequence of     *)
(* tokens: the prefix "data: ", a line break, the JSON text of a payload,  *)
(* or other text.                                                          *)
(***************************************************************************)
\* HttpNotificationPayload {result, error}
HttpNotificationPayload(result, has_error, error) ==
    [result |-> result, has_error |-> has_error, error |-> error]

\* impl From<Result<Option<Value>, ProtocolError>> for HttpNotificationPayload
HttpNotificationPayloadFrom(result) ==
    LET r == IF result.kind = "none"
             THEN [kind |-> "err", value |-> NoValue, err |-> generic_error("NotFound")]
             ELSE result
    IN  IF r.kind = "some"
        THEN HttpNotificationPayload(r.value, FALSE, Err("Internal", ""))
        ELSE HttpNotificationPayload(NoValue, TRUE, r.err)

\* impl Into<Result<Value, ProtocolError>> for HttpNotificationPayload
HttpNotificationPayloadInto(payload) ==
    IF payload.has_error THEN ItemErr(payload.error)
    ELSE IF payload.result = NoValue THEN ItemErr(generic_error("NotFound"))
    ELSE ItemOk(payload.result)

\* A token of text: k is "prefix", "nl", "text" or, for the JSON text of a
\* payload (serde_json::to_string(&payload)), "json".
Token(k, payload) == [k |-> k, payload |-> payload]
SSE_DATA_PREFIX == Token("prefix", HttpNotificationPayload(NoValue, FALSE, Err("Internal", "")))
LineBreak == Token("nl", SSE_DATA_PREFIX.payload)

\* notification_sse_response: format!("data: {}\n\n", payload_str)
SseFrame(result) ==
    <<SSE_DATA_PREFIX, Token("json", HttpNotificationPayloadFrom(result)), LineBreak, LineBreak>>

\* A search that finds the last line break of the buffer.
mutant_linebreak_pos(buffer) ==
    IF \E i \in DOMAIN buffer : buffer[i] = LineBreak
    THEN CHOOSE i \in DOMAIN buffer :
            buffer[i] = LineBreak /\ \A j \in (i + 1)..Len(buffer) : buffer[j] # LineBreak
    ELSE 0

\* buffer.iter().position(|b| b == &b'\n'), counted from 1 (0: none)
linebreak_pos(buffer) ==
    IF \E i \in DOMAIN buffer : buffer[i] = LineBreak
    THEN CHOOSE i \in DOMAIN buffer :
            buffer[i] = LineBreak /\ \A j \in 1..(i - 1) : buffer[j] # LineBreak
    ELSE 0

\* line.starts_with(SSE_DATA_PREFIX)
starts_with_prefix(line) == Len(line) >= 1 /\ line[1] = SSE_DATA_PREFIX

\* serde_json::from_str::<HttpNotificationPayload>(&line[SSE_DATA_PREFIX.len()..]):
\* one JSON text of a payload, followed by white space only
ParsesAsPayload(line) ==
    /\ Len(line) = 3
    /\ line[2].k = "json"
    /\ line[3] = LineBreak

(***************************************************************************)
(* One error crossing each of the four wires.                              *)
(***************************************************************************)
Descriptions == {"d", "e"}
Wires == {"stdio_response", "stdio_item", "http_response", "sse_frame"}

\* What the far side of wire w reconstructs from what the near side wrote
\* for the error e:
\*   a Response with the error, read by JsonRpcResponse::get_result;
\*   a stream item with the error, read by JsonRpcNotification::get_result;
\*   the error as an HTTP response, read by HttpClient::call;
\*   the error as a frame of an event stream, read by notification_sse_stream.
FarSide(w, e) ==
    CASE w = "stdio_response" ->
            LET message == JsonRpcResponseNew(FALSE, NoValue, e, NumId(1))
            IN  get_result(message.result, message.error).err
      [] w = "stdio_item" ->
            LET message == JsonRpcNotificationNewWithResultParams(FALSE, NoValue, e, <<"1">>)
            IN  get_result(message.params.result, message.params.error).err
      [] w = "http_response" ->
            ErrorFromHttpResponse(ProtocolErrorIntoHttpResponse(e))
      [] w = "sse_frame" ->
            LET frame == SseFrame([kind |-> "err", value |-> NoValue, err |-> e])
                line == SubSeq(frame, 1, linebreak_pos(frame))
            IN  IF starts_with_prefix(line) /\ ParsesAsPayload(line)
                THEN HttpNotificationPayloadInto(line[2].payload).err
                ELSE Err("Internal", "no item")

\* The error crosses wire w.
cross_wire(w) ==
    /\ received[w] = {}
    /\ received' = [received EXCEPT ![w] = {FarSide(w, sent)}]
    /\ UNCHANGED sent

\* The error to transmit: any category and description when the wires are
\* the system under study, none otherwise.
WireInit(on) ==
    /\ sent \in IF on
               THEN {Err(error_type, description) :
                        error_type \in ProtocolErrorType, description \in Descriptions}
               ELSE {Err("Internal", "")}
    /\ received = [w \in Wires |-> {}]

WireNext == \E w \in Wires : cross_wire(w)

(***************************************************************************)
(* HttpServerConnService::call (http/server/conn.rs). The requests of all  *)
(* connections share the configuration and clones of the service only.    *)
(***************************************************************************)
HttpCalls == 1..MaxHttpCalls

\* HttpServerConfig.api_keys as configured: none, or any set of strings.
ApiKeySets == {{}, {"k1"}, {"k1", "k2"}, {"", "k1"}}

\* The X-API-Key header of a request: absent, a string, or bytes for which
\* HeaderValue::to_str fails.
ApiKeyHeaders ==
    {[present |-> FALSE, ascii |-> TRUE, value |-> ""],
     [present |-> TRUE, ascii |-> TRUE, value |-> ""],
     [present |-> TRUE, ascii |-> TRUE, value |-> "k1"],
     [present |-> TRUE, ascii |-> TRUE, value |-> "k3"],
     [present |-> TRUE, ascii |-> FALSE, value |-> "bytes"]}

\* Errors a converter or a handler may return.
HttpErrors == {Err(error_type, "e") : error_type \in ProtocolErrorType}

\* What a user converter returns: Ok(Some(..)) (for to_http_response a
\* ModalHttpResponse::Single or, kind "event", an Event), Ok(None) or Err(e).
HttpConversions ==
    {[kind |-> k, err |-> Err("Internal", "")] : k \in {"some", "event", "none"}}
    \cup {[kind |-> "err", err |-> e] : e \in HttpErrors}

\* What service.call(request).await returns through the Timeout layer.
HttpHandlerResults ==
    {[ok |-> TRUE, multiple |-> m, error |-> Elapsed] : m \in BOOLEAN}
    \cup {[ok |-> FALSE, multiple |-> FALSE, error |-> BoxedProtocolError(e)] : e \in HttpErrors}
    \cup {[ok |-> FALSE, multiple |-> FALSE, error |-> Elapsed]}

\* check_api_key: TRUE for Ok(())
check_api_key(config_api_keys, header) ==
    LET key_header == IF header.present /\ header.ascii THEN header.value ELSE ""
    IN  config_api_keys = {} \/ key_header \in config_api_keys

\* The future of one call. converted / handled: from_http_request /
\* service.call was invoked; cause: who produced what the response
\* carries ("auth", "request", "handler", "response") and what it returned.
HttpCall(st, header, converted, handled, from, conv, result, response) ==
    [st |-> st, header |-> header, converted |-> converted, handled |-> handled,
     from |-> from, conv |-> conv, result |-> result, response |-> response]

\* A server that routes first and checks the key afterwards.
mutant_http_call(i, header, conv) ==
    /\ http_calls[i].st = "idle"
    /\ \A j \in 1..(i - 1) : http_calls[j].st # "idle"
    /\ conv.kind # "event"
    /\ LET idle == http_calls[i]
       IN  http_calls' = [http_calls EXCEPT ![i] =
             CASE conv.kind = "none" ->
                    HttpCall("answered", header, TRUE, FALSE, "request", conv, idle.result,
                             ProtocolErrorIntoHttpResponse(generic_error("NotFound")))
               [] conv.kind = "err" ->
                    HttpCall("answered", header, TRUE, FALSE, "request", conv, idle.result,
                             ProtocolErrorIntoHttpResponse(conv.err))
               [] conv.kind = "some" ->
                    IF ~check_api_key(api_keys, header)
                    THEN HttpCall("answered", header, TRUE, FALSE, "auth", idle.conv,
                                  idle.result,
                                  ProtocolErrorIntoHttpResponse(generic_error("Unauthorized")))
                    ELSE HttpCall("handling", header, TRUE, TRUE, "request", conv,
                                  idle.result, idle.response)]
    /\ UNCHANGED <<api_keys, client_api_key, client_call, sse_st, sse_buffer, sse_items,
                   sse_chunks, sse_lines, sse_body>>

\* call, up to service.call(request).await
http_call(i, header, conv) ==
    /\ http_calls[i].st = "idle"
    /\ \A j \in 1..(i - 1) : http_calls[j].st # "idle"
    /\ conv.kind # "event"
    /\ LET idle == http_calls[i]
       IN  http_calls' = [http_calls EXCEPT ![i] =
             IF ~check_api_key(api_keys, header)
             THEN HttpCall("answered", header, FALSE, FALSE, "auth", idle.conv, idle.result,
                           ProtocolErrorIntoHttpResponse(generic_error("Unauthorized")))
             ELSE CASE conv.kind = "some" ->
                         HttpCall("handling", header, TRUE, TRUE, "request", conv,
                                  idle.result, idle.response)
                    [] conv.kind = "none" ->
                         HttpCall("answered", header, TRUE, FALSE, "request", conv, idle.result,
                                  ProtocolErrorIntoHttpResponse(generic_error("NotFound")))
                    [] conv.kind = "err" ->
                         HttpCall("answered", header, TRUE, FALSE, "request", conv, idle.result,
                                  ProtocolErrorIntoHttpResponse(conv.err))]
    /\ UNCHANGED <<api_keys, client_api_key, client_call, sse_st, sse_buffer, sse_items,
                   sse_chunks, sse_lines, sse_body>>

\* call, from the return of service.call(request).await: the handler's
\* response goes through to_http_response, its error through
\* ProtocolError::from.
http_service_returns(i, result, conv) ==
    /\ http_calls[i].st = "handling"
    /\ ~result.ok => conv.kind = "some"
    /\ LET call == http_calls[i]
           response ==
             IF ~result.ok
             THEN ProtocolErrorIntoHttpResponse(ProtocolErrorFromBox(result.error))
             ELSE CASE conv.kind = "some" ->
                         HttpResponse(200, Body(IF result.multiple THEN "stream" ELSE "json",
                                                FALSE, ""))
                    [] conv.kind \in {"event", "none"} ->
                         ProtocolErrorIntoHttpResponse(generic_error("NotFound"))
                    [] conv.kind = "err" -> ProtocolErrorIntoHttpResponse(conv.err)
       IN  http_calls' = [http_calls EXCEPT ![i] =
             HttpCall("answered", call.header, TRUE, TRUE,
                      IF result.ok THEN "response" ELSE "handler", conv, result, response)]
    /\ UNCHANGED <<api_keys, client_api_key, client_call, sse_st, sse_buffer, sse_items,
                   sse_chunks, sse_lines, sse_body>>

(***************************************************************************)
(* HttpClient::call (http/client/mod.rs)                                   *)
(***************************************************************************)
\* HttpClientConfig.api_key: None, a key, or a string that is no header value.
ClientApiKeys ==
    {[present |-> p, valid |-> v] : p, v \in BOOLEAN} \ {[present |-> FALSE, valid |-> FALSE]}

\* What client.call(http_request).await returns through the Timeout layer:
\* a response of any status and body, or an error (Elapsed, a hyper error).
HttpClientResults ==
    {[ok |-> TRUE, response |-> HttpResponse(status, body)] :
        status \in {200, 204, 302, 400, 401, 404, 405, 500, 503},
        body \in {Body("json", TRUE, "e"), Body("json", FALSE, ""),
                  Body("text", FALSE, ""), Body("broken", FALSE, "")}}
    \cup {[ok |-> FALSE, response |-> HttpResponse(0, Body("broken", FALSE, ""))]}

\* The value the future returned: Ok(response) or Err(e), e as
\* ProtocolError::from reads the boxed error.
ClientCall(st, ok, err, result, conv) ==
    [st |-> st, ok |-> ok, err |-> err, result |-> result, conv |-> conv]

\* call, up to client.call(http_request).await
http_client_call(conv) ==
    /\ client_call.st = "idle"
    /\ conv.kind # "event"
    /\ client_call' =
          CASE conv.kind = "err" ->
                  ClientCall("done", FALSE, conv.err, client_call.result, conv)
            [] conv.kind = "none" ->
                  ClientCall("done", FALSE, generic_error("NotFound"), client_call.result, conv)
            [] conv.kind = "some" /\ client_api_key.present /\ ~client_api_key.valid ->
                  ClientCall("done", FALSE, Err("Internal", "failed to parse header value"),
                             client_call.result, conv)
            [] OTHER ->
                  ClientCall("sent", TRUE, client_call.err, client_call.result, conv)
    /\ UNCHANGED <<client_api_key, api_keys, http_calls, sse_st, sse_buffer, sse_items,
                   sse_chunks, sse_lines, sse_body>>

\* A client that takes a redirection for a success.
mutant_is_success(code) == code \in 200..399

\* StatusCode::is_success
is_success(code) == code \in 200..299

\* call, from the return of client.call(http_request).await
http_client_returns(result, conv) ==
    /\ client_call.st = "sent"
    /\ (result.ok /\ is_success(result.response.status)) \/ conv.kind = "some"
    /\ client_call' =
          IF ~result.ok
          THEN ClientCall("done", FALSE, ProtocolErrorFromBox(Elapsed), result, conv)
          ELSE IF ~is_success(result.response.status)
          THEN ClientCall("done", FALSE, ErrorFromHttpResponse(result.response), result, conv)
          ELSE CASE conv.kind \in {"some", "event"} ->
                      ClientCall("done", TRUE, client_call.err, result, conv)
                 [] conv.kind = "none" ->
                      ClientCall("done", FALSE, generic_error("NotFound"), result, conv)
                 [] conv.kind = "err" ->
                      ClientCall("done", FALSE, conv.err, result, conv)
    /\ UNCHANGED <<client_api_key, api_keys, http_calls, sse_st, sse_buffer, sse_items,
                   sse_chunks, sse_lines, sse_body>>

HttpClientNext ==
    \/ \E conv \in HttpConversions : http_client_call(conv)
    \/ \E result \in HttpClientResults : \E conv \in HttpConversions :
            http_client_returns(result, conv)

(***************************************************************************)
(* notification_sse_stream (http/util.rs)                                  *)
(***************************************************************************)
\* The chunks body.next() may return: one or two tokens of text.
SseTokens ==
    {SSE_DATA_PREFIX, LineBreak, Token("text", SSE_DATA_PREFIX.payload),
     Token("json", HttpNotificationPayloadFrom([kind |-> "some", value |-> "a", err |-> Err("Internal", "")])),
     Token("json", HttpNotificationPayloadFrom([kind |-> "err", value |-> NoValue, err |-> Err("BadRequest", "e")]))}
SseChunks == {<<t>> : t \in SseTokens} \cup {<<t, u>> : t, u \in SseTokens}

\* The item of one drained line, if it yields one: the error of the
\* payload, or what from_http_response made of its value (a declined
\* value is a NotFound error).
SseLineItems(line, conv) ==
    IF ~(starts_with_prefix(line) /\ ParsesAsPayload(line)) THEN <<>>
    ELSE LET result == HttpNotificationPayloadInto(line[2].payload)
         IN  IF ~result.ok THEN <<result>>
             ELSE CASE conv.kind = "some" -> <<ItemOk(result.value)>>
                    [] conv.kind \in {"none", "event"} -> <<ItemErr(generic_error("NotFound"))>>
                    [] conv.kind = "err" -> <<ItemErr(conv.err)>>

\* while let Some(bytes_result) = body.next().await: the next chunk, a
\* transport error, or the end of the body. The inner loop has drained
\* every complete line before body.next() is polled again.
sse_body_next(event) ==
    /\ sse_st = "open"
    /\ linebreak_pos(sse_buffer) = 0
    /\ CASE event.kind = "chunk" ->
              /\ sse_chunks < MaxChunks
              /\ sse_chunks' = sse_chunks + 1
              /\ sse_buffer' = sse_buffer \o event.bytes
              /\ sse_body' = sse_body \o event.bytes
              /\ UNCHANGED <<sse_st, sse_items>>
         [] event.kind = "error" ->
              /\ sse_items' = Append(sse_items, ItemErr(ProtocolErrorFromBox(
                                    [protocol |-> FALSE, e |-> Err("Internal", "connection error")])))
              /\ sse_st' = "ended"
              /\ UNCHANGED <<sse_buffer, sse_chunks, sse_body>>
         [] event.kind = "end" ->
              /\ sse_st' = "ended"
              /\ UNCHANGED <<sse_buffer, sse_items, sse_chunks, sse_body>>
    /\ UNCHANGED <<sse_lines, api_keys, http_calls, client_api_key, client_call>>

\* One turn of the inner loop: while let Some(linebreak_pos) = ...: the
\* line is drained and, when it is a data line with a payload, yields an item.
sse_next_line(conv) ==
    /\ sse_st = "open"
    /\ linebreak_pos(sse_buffer) > 0
    /\ LET line == SubSeq(sse_buffer, 1, linebreak_pos(sse_buffer))
       IN  \* the converter's answer is drawn only where it is asked for
           /\ conv.kind = "some" \/ SseLineItems(line, conv) # SseLineItems(line, [conv EXCEPT !.kind = "some"])
           /\ sse_buffer' = SubSeq(sse_buffer, linebreak_pos(sse_buffer) + 1, Len(sse_buffer))
           /\ sse_items' = sse_items \o SseLineItems(line, conv)
           /\ sse_lines' = Append(sse_lines, line)
    /\ UNCHANGED <<sse_st, sse_chunks, sse_body, api_keys, http_calls, client_api_key,
                   client_call>>

SseNext ==
    \/ \E bytes \in SseChunks : sse_body_next([kind |-> "chunk", bytes |-> bytes])
    \/ \E kind \in {"error", "end"} : sse_body_next([kind |-> kind, bytes |-> <<>>])
    \/ \E conv \in HttpConversions : sse_next_line(conv)

\* The HTTP state at the start. The configuration of the system under
\* study (on) is any of those it can be created with.
HttpInit(on) ==
    /\ client_api_key \in IF on = "client" THEN ClientApiKeys
                          ELSE {[present |-> FALSE, valid |-> TRUE]}
    /\ client_call = ClientCall("idle", TRUE, Err("Internal", ""),
                                [ok |-> FALSE, response |-> HttpResponse(0, Body("broken", FALSE, ""))],
                                [kind |-> "some", err |-> Err("Internal", "")])
    /\ sse_st = "open"
    /\ sse_buffer = <<>>
    /\ sse_items = <<>>
    /\ sse_chunks = 0
    /\ sse_lines = <<>>
    /\ sse_body = <<>>
    /\ api_keys \in IF on = "server" THEN ApiKeySets ELSE {{}}
    /\ http_calls = [i \in HttpCalls |->
          HttpCall("idle", [present |-> FALSE, ascii |-> TRUE, value |-> ""], FALSE, FALSE,
                   "none", [kind |-> "some", err |-> Err("Internal", "")],
                   [ok |-> TRUE, multiple |-> FALSE, error |-> Elapsed],
                   HttpResponse(0, Body("json", FALSE, "")))]

HttpServerNext ==
    \/ \E i \in HttpCalls : \E header \in ApiKeyHeaders : \E conv \in HttpConversions :
            http_call(i, header, conv)
    \/ \E i \in HttpCalls : \E result \in HttpHandlerResults : \E conv \in HttpConversions :
            http_service_returns(i, result, conv)

(***************************************************************************)
(* The lifetime of a StdioClient (stdio/client/mod.rs) and the conditions  *)
(* the comm task's loop meets besides messages (stdio/client/comm.rs run). *)
(***************************************************************************)
\* #[derive(Clone)]: the clone shares _child (an Arc) and gets its own
\* to_child_tx; nothing is spawned.
CloneClient ==
    /\ clones \in 1..(MaxClones - 1)
    /\ clones' = clones + 1
    /\ UNCHANGED <<clientVars, childKilled, stdoutBroken, run_err, events>>

\* A client whose every drop kills the child.
mutant_ChildAfterDrop(left) == TRUE

\* Drop of one Arc<Child>: the Child (kill_on_drop(true)) is dropped, and
\* the child killed, when no other clone is left.
ChildAfterDrop(left) == left = 0

\* A StdioClient value is dropped: its _child reference and its to_child_tx.
DropClient ==
    /\ clones > 0
    /\ clones' = clones - 1
    /\ childKilled' = ChildAfterDrop(clones - 1)
    /\ UNCHANGED <<clientVars, stdoutBroken, run_err, events>>

\* Every sender of the submission channel is gone: no StdioClient is left
\* and no call future (each holds a clone of to_child_tx) is still awaiting.
ChannelClosed == clones = 0 /\ \A c \in Calls : callState[c] # "awaiting"

\* the select! branch to_child_rx.recv() => None: `if let Some(..)` does
\* not match, the loop goes on.
recv_none ==
    /\ commRunning
    /\ to_child = <<>>
    /\ ChannelClosed
    /\ events' = events \cup {"recv_none"}
    /\ UNCHANGED <<clientVars, clones, childKilled, stdoutBroken, run_err>>

\* read_line returned Err(e): logged, the loop goes on.
client_read_error ==
    /\ commRunning
    /\ events' = events \cup {"read_error"}
    /\ UNCHANGED <<clientVars, clones, childKilled, stdoutBroken, run_err>>

\* The comm task read a line for which try_from returns Err.
client_malformed_line(line) ==
    /\ ~try_from(from_str_or_default(line)).ok
    /\ handle_parse_failure
    /\ events' = events \cup {"malformed"}
    /\ UNCHANGED <<clones, childKilled, stdoutBroken, run_err>>

\* The comm task read the end of the child's stdout.
client_eof ==
    /\ handle_eof
    /\ events' = events \cup {"eof"}
    /\ UNCHANGED <<clones, childKilled, stdoutBroken, run_err>>

LifeInit ==
    /\ clones = 1
    /\ childKilled = FALSE
    /\ stdoutBroken = FALSE
    /\ run_err = FALSE
    /\ events = {}

\* call(&mut self) needs a StdioClient; the future is taken to be polled
\* while that client lives.
LifeNext ==
    \/ CloneClient
    \/ DropClient
    \/ \E c \in Calls : clones > 0 /\ Submit(c) /\ UNCHANGED ioVars
    \/ \E c \in Calls : Timeout(c) /\ UNCHANGED ioVars
    \/ handle_outgoing_request /\ UNCHANGED ioVars
    \/ recv_none
    \/ client_read_error
    \/ \E line \in OddLines : client_malformed_line(line)
    \/ \E m \in ChildResponses : \E conv \in ConversionsFor(m.error) :
            handle_response(m, conv) /\ UNCHANGED ioVars
    \/ client_eof
    \/ ChildClosesStdin /\ UNCHANGED ioVars

(***************************************************************************)
(* I/O errors on the pipes of the stdio server (stdio/server/mod.rs run).  *)
(***************************************************************************)
\* read_line returned Err(e): `read_result?` returns it from run.
server_read_error ==
    /\ srvRunning
    /\ srvRunning' = FALSE
    /\ run_err' = TRUE
    /\ UNCHANGED <<accepted, reqs, notification_stream_rx, stdout, yielded, clientVars,
                   clones, childKilled, stdoutBroken, events>>

\* The parent closes its end of the server's stdout: later writes fail.
ParentClosesStdout ==
    /\ ~stdoutBroken
    /\ stdoutBroken' = TRUE
    /\ UNCHANGED <<serverVars, clientVars, clones, childKilled, run_err, events>>

ServerIoNext ==
    \/ ServerNext /\ UNCHANGED ioVars
    \/ server_read_error
    \/ ParentClosesStdout

(***************************************************************************)
(* Both loops reading lines, malformed ones among them (no streams, no    *)
(* timeouts, no end of input).                                             *)
(***************************************************************************)
\* The server read a line for which try_from returns Err.
server_malformed_line(line) ==
    /\ ~try_from(from_str_or_default(line)).ok
    /\ handle_request([type |-> "Invalid"], "some")
    /\ events' = events \cup {"server_malformed"}
    /\ UNCHANGED <<clones, childKilled, stdoutBroken, run_err>>

LinesNext ==
    \/ \E c \in Calls : Submit(c) /\ UNCHANGED <<serverVars, ioVars>>
    \/ handle_outgoing_request /\ UNCHANGED <<serverVars, ioVars>>
    \/ \E line \in OddLines : client_malformed_line(line) /\ UNCHANGED serverVars
    \/ \E m \in ChildResponses : \E conv \in ConversionsFor(m.error) :
            handle_response(m, conv) /\ UNCHANGED <<serverVars, ioVars>>
    \/ \E line \in OddLines : server_malformed_line(line)
    \/ \E line \in ParentLines : \E rconv \in RequestConversions :
            handle_request(line, rconv) /\ UNCHANGED ioVars
    \/ \E r \in Reqs : \E result \in HandlerResults :
            handle_response_future(r, result) /\ UNCHANGED ioVars

(***************************************************************************)
(* One application of a conversion of jsonrpc.rs to one argument.          *)
(***************************************************************************)
Codes == (-32650 - CodeSpread)..(-32650 + CodeSpread) \cup {-1, 0, 1, 32600}

\* Results of a stream, as the core receives them before it builds the
\* payload: Ok(Some(value)) for any JSON value the converter gave, null
\* included, Ok(None) (HTTP only: the converter gave no event) or Err(e).
NoStreamResult == [kind |-> "none", value |-> NoValue, err |-> Err("Internal", "")]
StreamResults ==
    {[kind |-> "some", value |-> v, err |-> Err("Internal", "")] : v \in Payloads \cup {NoValue}}
    \cup {NoStreamResult}
    \cup {[kind |-> "err", value |-> NoValue, err |-> Err(c, "e")] : c \in ProtocolErrorType}

ConvInputs ==
    {[t |-> "line", line |-> l, category |-> "Internal", code |-> 0,
      item |-> NoStreamResult] : l \in Lines}
    \cup {[t |-> "category", line |-> NotJson, category |-> c, code |-> 0,
           item |-> NoStreamResult] : c \in ProtocolErrorType}
    \cup {[t |-> "code", line |-> NotJson, category |-> "Internal", code |-> n,
           item |-> NoStreamResult] : n \in Codes}
    \cup {[t |-> "item", line |-> NotJson, category |-> "Internal", code |-> 0,
           item |-> i] : i \in StreamResults}

NotApplied ==
    [done |-> FALSE, ok |-> FALSE, variant |-> "", category |-> "", code |-> 0,
     result |-> NoValue, has_error |-> FALSE]

\* JsonRpcMessage::try_from(serde_json::from_str(line).unwrap_or_default())
apply_try_from ==
    /\ fn_in.t = "line" /\ ~fn_out.done
    /\ LET r == try_from(from_str_or_default(fn_in.line))
       IN  fn_out' = [NotApplied EXCEPT !.done = TRUE, !.ok = r.ok, !.variant = r.variant]
    /\ UNCHANGED fn_in

\* JsonRpcErrorCode::from(error_type) as i32
apply_code_from_type ==
    /\ fn_in.t = "category" /\ ~fn_out.done
    /\ fn_out' = [NotApplied EXCEPT !.done = TRUE, !.ok = TRUE,
                                    !.code = JsonRpcErrorCodeFromType(fn_in.category)]
    /\ UNCHANGED fn_in

\* JsonRpcErrorCode::from(code).into()
apply_type_from_code ==
    /\ fn_in.t = "code" /\ ~fn_out.done
    /\ fn_out' = [NotApplied EXCEPT !.done = TRUE, !.ok = TRUE,
                    !.category = JsonRpcErrorCodeIntoType(JsonRpcErrorCodeFromI32(fn_in.code))]
    /\ UNCHANGED fn_in

\* JsonRpcNotificationResultParams::new(result), serialised as the params
\* of a notification: the result and error members as they are on the wire.
apply_result_params ==
    /\ fn_in.t = "item" /\ fn_in.item.kind # "none" /\ ~fn_out.done
    /\ LET params == JsonRpcNotificationNewWithResultParams(
                        fn_in.item.kind = "some", fn_in.item.value, fn_in.item.err,
                        <<"1">>).params
       IN  fn_out' = [NotApplied EXCEPT !.done = TRUE, !.ok = TRUE, !.variant = "params",
                                       !.result = params.result,
                                       !.has_error = params.error.present]
    /\ UNCHANGED fn_in

\* HttpNotificationPayload::from(result), serialised as the JSON text of an
\* SSE frame.
apply_http_payload ==
    /\ fn_in.t = "item" /\ ~fn_out.done
    /\ LET payload == SseFrame(fn_in.item)[2].payload
       IN  fn_out' = [NotApplied EXCEPT !.done = TRUE, !.ok = TRUE, !.variant = "payload",
                                       !.result = payload.result,
                                       !.has_error = payload.has_error]
    /\ UNCHANGED fn_in

ConvInit(on) ==
    /\ fn_in \in IF on THEN ConvInputs ELSE {CHOOSE i \in ConvInputs : i.line = NotJson /\ i.t = "line"}
    /\ fn_out = NotApplied

ConvNext ==
    \/ apply_try_from
    \/ apply_code_from_type
    \/ apply_type_from_code
    \/ apply_result_params
    \/ apply_http_payload

(***************************************************************************)
(* The stdout of the stdio server, write by write (stdio/server/comm.rs    *)
(* output_message). The tasks that write are the main loop, which writes   *)
(* the Notifications of handle_notification one after the other, and the   *)
(* sub-task handle_response_future spawns for each request, which writes   *)
(* one Response. serialize_payload gives one line: serde_json escapes the  *)
(* newlines of strings, and "\n" is appended; write_all hands it to stdout *)
(* in one or more writes, the last of which carries the "\n".              *)
(***************************************************************************)
MainLoop == <<"run", 0>>

SubTasks == {<<"spawn", r>> : r \in Reqs}

Writers == {MainLoop} \cup SubTasks

\* Messages a task writes: the main loop one per notification, a sub-task
\* the one Response of its request.
MsgsOf(w) == IF w = MainLoop THEN MaxMsgs ELSE 1

\* tokio::sync::Mutex::lock resolves when no guard is alive.
mutant_MutexFree(holders) == TRUE

MutexFree(holders) == holders = {}

\* let serialized_message = serialize_payload(&message); the task then
\* awaits stdout.lock().
output_message_serialize(w, len) ==
    /\ out_pc[w] = "idle"
    /\ out_msg[w] < MsgsOf(w)
    /\ out_msg' = [out_msg EXCEPT ![w] = @ + 1]
    /\ out_len' = [out_len EXCEPT ![w] = len]
    /\ out_pos' = [out_pos EXCEPT ![w] = 0]
    /\ out_pc' = [out_pc EXCEPT ![w] = "lock"]
    /\ UNCHANGED <<out_lock, out_bytes>>

\* stdout.lock().await resolves: the task holds the guard.
output_message_lock(w) ==
    /\ out_pc[w] = "lock"
    /\ MutexFree(out_lock)
    /\ out_lock' = out_lock \cup {w}
    /\ out_pc' = [out_pc EXCEPT ![w] = "write"]
    /\ UNCHANGED <<out_msg, out_len, out_pos, out_bytes>>

\* One write of write_all, through the guard.
output_message_write(w) ==
    /\ out_pc[w] = "write"
    /\ out_pos[w] < out_len[w]
    /\ ~stdoutBroken
    /\ out_bytes' = Append(out_bytes, [writer |-> w, msg |-> out_msg[w],
                                       k |-> out_pos[w] + 1,
                                       nl |-> out_pos[w] + 1 = out_len[w]])
    /\ out_pos' = [out_pos EXCEPT ![w] = @ + 1]
    /\ UNCHANGED <<out_lock, out_pc, out_msg, out_len>>

\* write_all returned, Ok(()) after the last write or Err(e) on a closed
\* stdout; .ok() drops the result and the guard is dropped at the end of the
\* statement.
output_message_return(w) ==
    /\ out_pc[w] = "write"
    /\ out_pos[w] = out_len[w] \/ stdoutBroken
    /\ out_lock' = out_lock \ {w}
    /\ out_pc' = [out_pc EXCEPT ![w] = "idle"]
    /\ UNCHANGED <<out_msg, out_len, out_pos, out_bytes>>

OutInit ==
    /\ out_lock = {}
    /\ out_pc = [w \in Writers |-> "idle"]
    /\ out_msg = [w \in Writers |-> 0]
    /\ out_len = [w \in Writers |-> 0]
    /\ out_pos = [w \in Writers |-> 0]
    /\ out_bytes = <<>>

OutNext ==
    \/ \E w \in Writers, len \in 1..MaxOutChunks :
            output_message_serialize(w, len) /\ UNCHANGED ioVars
    \/ \E w \in Writers : output_message_lock(w) /\ UNCHANGED ioVars
    \/ \E w \in Writers : output_message_write(w) /\ UNCHANGED ioVars
    \/ \E w \in Writers : output_message_return(w) /\ UNCHANGED ioVars
    \/ ParentClosesStdout /\ UNCHANGED outVars


(***************************************************************************)
(* The systems. SpecClient and SpecServer run one end against any peer;    *)
(* SpecPair runs the two ends against each other; SpecWire sends one error *)
(* over each wire.                                                         *)
(***************************************************************************)
\* wire: an error is about to cross each wire; http: which HTTP component
\* runs ("none", "server", "client" or "sse"). The stdio ends start as built.
SystemInit(wire, http) ==
    /\ ClientInit /\ ServerInit /\ PairInit /\ LifeInit
    /\ WireInit(wire) /\ HttpInit(http) /\ ConvInit(http = "conv") /\ OutInit

Init == SystemInit(FALSE, "none")

SpecClient ==
    Init /\ [][ClientNext /\ UNCHANGED <<serverVars, pairVars, wireVars, httpVars, restVars>>]_vars

SpecServer == Init /\ [][ServerNext /\ UNCHANGED <<pairVars, wireVars, httpVars, restVars>>]_vars

SpecPair == Init /\ [][PairNext /\ UNCHANGED <<wireVars, httpVars, restVars>>]_vars

SpecWire ==
    SystemInit(TRUE, "none")
        /\ [][WireNext /\ UNCHANGED <<clientVars, serverVars, pairVars, httpVars, restVars>>]_vars

SpecHttpServer ==
    SystemInit(FALSE, "server")
        /\ [][HttpServerNext /\ UNCHANGED <<clientVars, serverVars, pairVars, wireVars, restVars>>]_vars

SpecHttpClient ==
    SystemInit(FALSE, "client")
        /\ [][HttpClientNext /\ UNCHANGED <<clientVars, serverVars, pairVars, wireVars, restVars>>]_vars

SpecSse ==
    SystemInit(FALSE, "sse")
        /\ [][SseNext /\ UNCHANGED <<clientVars, serverVars, pairVars, wireVars, restVars>>]_vars

SpecLife ==
    Init /\ [][LifeNext /\ UNCHANGED <<serverVars, pairVars, wireVars, httpVars, convVars, outVars>>]_vars

SpecServerIo ==
    Init /\ [][ServerIoNext /\ UNCHANGED <<pairVars, wireVars, httpVars, convVars, outVars>>]_vars

SpecLines ==
    Init /\ [][LinesNext /\ UNCHANGED <<pairVars, wireVars, httpVars, convVars, outVars>>]_vars

SpecConv ==
    SystemInit(FALSE, "conv")
        /\ [][ConvNext /\ UNCHANGED <<clientVars, serverVars, pairVars, wireVars,
                                      httpVars, ioVars, outVars>>]_vars

SpecOut ==
    Init /\ [][OutNext /\ UNCHANGED <<clientVars, serverVars, pairVars, wireVars,
                                     httpVars, convVars>>]_vars

\* Once the child is killed its end of the stdout pipe is closed and
\* read_line returns Ok(0) whenever it is polled; select! polls its ready
\* branches in random order, so the loop eventually takes that branch.
SpecLifeFair ==
    SpecLife /\ WF_vars(childKilled /\ client_eof
                          /\ UNCHANGED <<serverVars, pairVars, wireVars, httpVars, convVars, outVars>>)

\* The timer of every awaiting call eventually fires (tokio's timeout is
\* driven by the runtime's timer whatever the comm task does); the comm
\* task, the child and the callers' cancellations are under no obligation.
SpecClientFair == SpecClient /\ \A c \in Calls : WF_clientVars(Timeout(c))

(***************************************************************************)
(* Properties of the stdio client.                                         *)
(***************************************************************************)
\* The call was abandoned by its caller: its future timed out or was dropped.
Orphaned(c) ==
    \/ callState[c] = "dropped"
    \/ callState[c] = "done" /\ outcome[c] = Failed(TimedOut, NullId)

\* The ids of the requests written to the child, in the order written.
WrittenRequestIds ==
    LET written == SelectSeq(child_stdin, LAMBDA m : m.type = "Request")
    IN  [k \in 1..Len(written) |-> written[k].id.v]

\* C1 (correlation): a call's future returns Single(r), or the error of a
\* Response, only from a Response whose id is the number the comm task
\* assigned to that call, in whatever order the replies arrive.
C1_Correlation ==
    \A c \in Calls :
        outcome[c].kind \in {"Single", "Err"} /\ outcome[c].rid # NullId
            => assigned[c] # 0 /\ outcome[c].rid = NumId(assigned[c])

\* the reply of the second call resolved it while the first still waits
C1_Witness ==
    /\ assigned[1] = 1
    /\ callState[1] = "awaiting"
    /\ outcome[2].kind = "Single"
    /\ outcome[2].rid = NumId(2)

\* C2 (id assignment): the k-th request taken from the submission channel
\* gets id k, so the ids handed out are 1..last_req_id without reuse, and
\* the requests on the child's stdin carry strictly increasing ids.
C2_IdAssignment ==
    /\ \A c \in Calls : assigned[c] \in {0, c}
    /\ {assigned[c] : c \in Calls} \ {0} = 1..last_req_id
    /\ \A k \in 1..Len(to_child) : assigned[to_child[k]] = 0
    /\ \A p, q \in DOMAIN WrittenRequestIds :
            p < q => WrittenRequestIds[p] < WrittenRequestIds[q]
    /\ ~stdinBroken => WrittenRequestIds = [k \in 1..last_req_id |-> k]

\* two requests were taken and written, with an answer to the child between
C2_Witness ==
    /\ last_req_id = 2
    /\ Len(child_stdin) = 3
    /\ WrittenRequestIds = <<1, 2>>

\* C3 (exactly one outcome): an awaited call gets an outcome (at the latest
\* by its timeout), the comm task sends at most one value on its oneshot
\* whatever the child repeats, and a returned outcome never changes.
C3_ExactlyOneOutcome ==
    /\ [](\A c \in Calls :
            /\ resolved[c] <= 1
            /\ (callState[c] = "done") = (outcome[c].kind # "None"))
    /\ [][\A c \in Calls :
            callState[c] = "done" => callState'[c] = "done" /\ outcome'[c] = outcome[c]]_clientVars
    /\ \A c \in Calls : (callState[c] = "awaiting") ~> (callState[c] \in {"done", "dropped"})

\* a second Response for an id that already resolved its call was read
C3_Witness ==
    /\ outcome[1].kind = "Single"
    /\ resolved[1] = 1
    /\ replyKind[1] = "response"
    /\ linesRead = 3
    /\ assigned[2] = 0

\* The item the consumer reads for one notification's params.
ItemOf(params) ==
    LET r == get_result(params.result, params.error)
    IN  IF r.ok THEN ItemOk(r.value) ELSE ItemErr(r.err)

\* C4 (stream ordering): the items on the stream of a streaming call are,
\* in order and without loss or duplication, the notifications with params
\* the child emitted for its id before the first one without params.
C4_StreamOrdering ==
    \A c \in Calls :
        outcome[c].kind = "Multiple"
            => notification_rx[c].items =
                 [k \in 1..Len(emitted[assigned[c]]) |-> ItemOf(emitted[assigned[c]][k])]

\* C5 (stream termination): once a notification without params was read
\* for a streaming id, the id is in neither map and its stream is closed,
\* and no later step puts it back or adds an item to the stream.
C5_StreamTermination ==
    /\ [](\A c \in Calls :
            assigned[c] # 0 /\ sentinelSeen[assigned[c]]
                => /\ assigned[c] \notin DOMAIN notification_links
                   /\ assigned[c] \notin DOMAIN pending_reqs
                   /\ notification_rx[c].st # "live")
    /\ [][\A c \in Calls :
            assigned[c] # 0 /\ sentinelSeen[assigned[c]]
                => notification_rx'[c] = notification_rx[c]]_clientVars

\* a stream with an item was closed and a later notification for it read
C5_Witness ==
    \E c \in Calls :
        /\ assigned[c] # 0
        /\ lateSeen[assigned[c]]
        /\ outcome[c].kind = "Multiple"
        /\ notification_rx[c].st = "closed"
        /\ Len(notification_rx[c].items) = 1

\* Everything the comm task owns.
commState ==
    <<to_child, last_req_id, pending_reqs, notification_links, child_stdin,
      notification_rx, commRunning, stdinBroken>>

\* C6 (timeout): a call that times out returns an Internal error; the step
\* changes nothing of the comm task or the connection, and a call submitted
\* after it is given a fresh id, written to the child and resolved by the
\* reply with that id.
C6_Timeout ==
    /\ [][\A c \in Calls :
            callState[c] = "awaiting" /\ outcome'[c] = Failed(TimedOut, NullId)
                => /\ outcome'[c].err.error_type = "Internal"
                   /\ callState'[c] = "done"
                   /\ commState' = commState]_clientVars
    /\ [](\A c \in Calls :
            afterTimeout[c] /\ assigned[c] # 0
                => /\ assigned[c] = c
                   /\ \A d \in Calls \ {c} : assigned[d] # c
                   /\ (~stdinBroken =>
                          \E k \in DOMAIN child_stdin :
                              child_stdin[k] = JsonRpcRequest(<<"m">>, NumId(c)))
                   /\ (outcome[c].kind = "Single" => outcome[c].rid = NumId(c)))

\* the first call timed out; the second, submitted after that, got its reply
C6_Witness ==
    /\ outcome[1] = Failed(TimedOut, NullId)
    /\ commRunning
    /\ afterTimeout[2]
    /\ outcome[2].kind = "Single"
    /\ outcome[2].rid = NumId(2)

\* C7 (orphaned calls): the entry of a call that timed out or was dropped
\* stays in pending_reqs until the child replies for its id; the reply
\* removes that entry and only that one, and delivers nothing to any call.
C7_OrphanedCalls ==
    /\ [](\A c \in Calls :
            Orphaned(c) /\ assigned[c] # 0 /\ commRunning
                => IF replyKind[assigned[c]] = "none"
                   THEN /\ assigned[c] \in DOMAIN pending_reqs
                        /\ pending_reqs[assigned[c]] = c
                   ELSE assigned[c] \notin DOMAIN pending_reqs)
    /\ [][\A k \in DOMAIN pending_reqs :
            /\ Orphaned(pending_reqs[k])
            /\ commRunning'
            /\ k \notin DOMAIN pending_reqs'
            => /\ pending_reqs' = MapRemove(pending_reqs, k)
               /\ outcome' = outcome
               /\ callState' = callState]_clientVars

\* the reply for a timed-out call was read and dropped while another call
\* was pending, and the other call was then resolved by its own reply
C7_Witness ==
    /\ Orphaned(1)
    /\ replyKind[1] = "response"
    /\ resolved[1] = 1
    /\ afterTimeout[2] = FALSE
    /\ outcome[2].kind = "Single"

\* C12 (unsolicited request): reading a Request with id x from the child
\* makes the client write one Response with id x, a null result and an
\* error of code -32600 (BadRequest), and changes nothing else: the pending
\* map, the streams map, the id counter and every call are as before.
C12_UnsolicitedRequest ==
    [][\A request \in ChildRequests :
          handle_incoming_request(request)
              => /\ ~stdinBroken =>
                      child_stdin' = Append(child_stdin,
                          [type |-> "Response", result |-> NoValue,
                           error |-> ResponseError(-32600,
                                        "client does not support serving request"),
                           id |-> request.id])
                 /\ stdinBroken => child_stdin' = child_stdin
                 /\ JsonRpcErrorCodeIntoType(JsonRpcErrorCodeFromI32(-32600)) = "BadRequest"
                 /\ pending_reqs' = pending_reqs
                 /\ notification_links' = notification_links
                 /\ last_req_id' = last_req_id
                 /\ callState' = callState
                 /\ outcome' = outcome
                 /\ notification_rx' = notification_rx
                 /\ commRunning' = commRunning]_vars

\* while call 1 waited for its reply the child sent a Request with the id
\* 1, and the client answered it and kept the call pending
C12_Witness ==
    /\ Len(child_stdin) = 2
    /\ child_stdin[1] = JsonRpcRequest(<<"m">>, NumId(1))
    /\ child_stdin[2].type = "Response"
    /\ child_stdin[2].id = NumId(1)
    /\ child_stdin[2].error.code = -32600
    /\ callState[1] = "awaiting"
    /\ pending_reqs = MapInsert(EmptyMap, 1, 1)
    /\ last_req_id = 1

(***************************************************************************)
(* Properties of the stdio server.                                         *)
(***************************************************************************)
\* The messages written to stdout for request r, in the order written.
Out(r) ==
    LET own == SelectSeq(stdout, LAMBDA w : w.src = r)
    IN  [k \in 1..Len(own) |-> own[k].msg]

\* C8 (single response id): the Response written for a request whose
\* handler returned a single response carries the request's id when that id
\* is a non-negative integer, and the id 0 for every other JSON value.
C8_SingleResponseId ==
    \A r \in Reqs :
        reqs[r].st = "single"
            => /\ Len(Out(r)) = 1
               /\ Out(r)[1].type = "Response"
               /\ Out(r)[1].error = NoError
               /\ Out(r)[1].id =
                    IF reqs[r].jid.t = "num" /\ reqs[r].jid.v >= 0
                    THEN reqs[r].jid
                    ELSE NumId(0)

\* C8 as stated: the Response carries the id of the request, for any JSON
\* value the request carried as id.
C8_AnyJsonId ==
    \A r \in Reqs :
        reqs[r].st = "single"
            => /\ Len(Out(r)) = 1
               /\ Out(r)[1].type = "Response"
               /\ Out(r)[1].id = reqs[r].jid

\* requests with the ids 2 and "1" were answered, the second one first
C8_Witness ==
    /\ reqs[1].st = "single" /\ reqs[1].jid = NumId(2)
    /\ reqs[2].st = "single" /\ reqs[2].jid = StrId(1)
    /\ Out(1)[1].id = NumId(2)
    /\ Out(2)[1].id = NumId(0)
    /\ stdout[1].src = 2

\* The notification that carries one item of the stream of request r.
ItemNotification(r, item) ==
    [type |-> "Notification",
     method |-> U64ToString(reqs[r].id),
     params |-> IF item.ok
                THEN ResultParams(item.value, NoError)
                ELSE ResultParams(NoValue,
                        ResponseError(JsonRpcErrorCodeFromType(item.err.error_type),
                                      item.err.description))]

Sentinel(r) ==
    [type |-> "Notification", method |-> U64ToString(reqs[r].id), params |-> NoParams]

YieldedNotifications(r) ==
    [k \in 1..Len(yielded[r]) |-> ItemNotification(r, yielded[r][k])]

\* C9 (streaming output): what is written for a streaming request is, at
\* every moment, the items its handler's stream has yielded so far, as
\* notifications with method = string(id) in yield order, followed, once
\* the stream has ended, by one notification with null params; nothing is
\* written for it after that one, whatever other streams are active.
C9_StreamingOutput ==
    \A r \in Reqs :
        /\ reqs[r].st \in {"queued", "lost"} => Out(r) = <<>>
        /\ reqs[r].st = "streaming" => Out(r) = YieldedNotifications(r)
        /\ reqs[r].st \in {"complete", "removed"}
                => Out(r) = Append(YieldedNotifications(r), Sentinel(r))

\* two streams were active at once, their notifications interleaved on
\* stdout, and the first ended after two items
C9_Witness ==
    /\ reqs[1].st = "removed"
    /\ Len(yielded[1]) = 2
    /\ yielded[1][1] # yielded[1][2]
    /\ reqs[2].st = "streaming"
    /\ Len(yielded[2]) = 1
    /\ stdout[2].src = 2
    /\ stdout[4].src = 1

\* C10 (handler timeout): for a request whose handler timed out exactly one
\* message is ever written: a Response with the request's id and an error
\* of code -32603 (Internal); its handler produces nothing afterwards.
C10_HandlerTimeout ==
    \A r \in Reqs :
        reqs[r].st = "timedout"
            => /\ Len(Out(r)) = 1
               /\ Out(r)[1].type = "Response"
               /\ Out(r)[1].id = NumId(reqs[r].id)
               /\ (reqs[r].jid.t = "num" /\ reqs[r].jid.v >= 0 => Out(r)[1].id = reqs[r].jid)
               /\ Out(r)[1].result = NoValue
               /\ Out(r)[1].error.present
               /\ Out(r)[1].error.code = -32603
               /\ JsonRpcErrorCodeIntoType(Out(r)[1].error.code) = "Internal"
               /\ \A result \in HandlerResults : ~ENABLED handle_response_future(r, result)
               /\ \A inner \in InnerPolls(r) : ~ENABLED next_notification(r, inner)

\* the handler of request 1 timed out, and the server went on to answer
\* request 2 and to read the end of its input
C10_Witness ==
    /\ reqs[1].st = "timedout"
    /\ reqs[1].jid = NumId(1)
    /\ reqs[2].st = "single"
    /\ Len(stdout) = 2
    /\ stdout[1].src = 1
    /\ ~srvRunning

(***************************************************************************)
(* Properties of a client paired with its server.                          *)
(***************************************************************************)
\* The message is a reply for the request with this id: a Response with
\* the id, or a Notification whose method is the id.
RepliesTo(message, id) ==
    \/ message.type = "Response" /\ message.id = NumId(id)
    \/ message.type = "Notification" /\ ParseU64(message.method) = id

C20_ConverterDeclines ==
    \A c \in Calls :
        /\ callState[c] = "done"
        /\ \/ <<"request", assigned[c]>> \in declined
           \/ <<"response", assigned[c]>> \in declined /\ outcome[c] # Failed(TimedOut, NullId)
        => /\ outcome[c].kind = "Err"
           /\ outcome[c].err.error_type = "NotFound"

(***************************************************************************)
(* Properties of the error maps and of errors on the wire.                 *)
(***************************************************************************)
\* C17 (category round trip): over the HTTP status map every category comes
\* back as itself; over the JSON-RPC code map BadRequest and Internal come
\* back as themselves, Unauthorized comes back as BadRequest, NotFound and
\* HttpMethodNotAllowed come back as Internal.
C17_CategoryRoundTrip ==
    LET C == sent.error_type
        viaStatus == TypeFromStatusCode(StatusCodeFromType(C))
        viaCode == JsonRpcErrorCodeIntoType(JsonRpcErrorCodeFromI32(JsonRpcErrorCodeFromType(C)))
    IN  /\ viaStatus = C
        /\ \A e \in received["http_response"] : e.error_type = C
        /\ viaCode = CASE C \in {"BadRequest", "Internal"} -> C
                        [] C = "Unauthorized" -> "BadRequest"
                        [] C \in {"NotFound", "HttpMethodNotAllowed"} -> "Internal"
        /\ (C = "BadRequest" => viaCode # "Internal")
        /\ \A e \in received["stdio_response"] : e.error_type = viaCode

\* an Unauthorized error went over both maps: 401 and back, -32600 and back
C17_Witness ==
    /\ sent.error_type = "Unauthorized"
    /\ received["http_response"] = {sent}
    /\ received["stdio_response"] = {Err("BadRequest", sent.description)}

C13_AuthEnforcement ==
    \A i \in HttpCalls :
        api_keys # {} /\ http_calls[i].st # "idle"
            => LET header == http_calls[i].header
               IN  IF header.present /\ header.ascii /\ header.value \in api_keys
                   THEN http_calls[i].converted
                   ELSE http_calls[i].response.status = 401

\* C14 (HTTP routing): a request for which the request converter returned
\* None is answered 404 with the body {"error": "404 Not Found"}, and the
\* handler is not invoked for it.
C14_Routing ==
    \A i \in HttpCalls :
        /\ http_calls[i].st # "idle"
        /\ http_calls[i].from = "request"
        /\ http_calls[i].conv.kind = "none"
        => /\ http_calls[i].st = "answered"
           /\ http_calls[i].response = HttpResponse(404, Body("json", TRUE, "404 Not Found"))
           /\ ~http_calls[i].handled

\* a request with a valid key was declined by the converter and answered
\* 404 while the handler was busy with another request
C14_Witness ==
    /\ api_keys = {"k1"}
    /\ http_calls[1].st = "handling"
    /\ http_calls[2].header.value = "k1"
    /\ http_calls[2].conv.kind = "none"
    /\ http_calls[2].response.status = 404

\* The error a call had to report, if any: the request converter's, the
\* handler's (Elapsed for a timeout) or the response converter's.
ReportedError(call) ==
    CASE call.from = "handler" -> {ProtocolErrorFromBox(call.result.error)}
      [] call.from \in {"request", "response"} /\ call.conv.kind = "err" -> {call.conv.err}
      [] OTHER -> {}

\* C16 (HTTP server error responses): an error returned by the request
\* converter, the handler or the response converter, and the timeout of
\* the handler, are answered with the body {"error": description} and the
\* status of the error's category: 400 BadRequest, 401 Unauthorized,
\* 404 NotFound, 405 MethodNotAllowed, 500 Internal (a timeout is Internal).
C16_ErrorResponses ==
    \A i \in HttpCalls : \A e \in ReportedError(http_calls[i]) :
        /\ http_calls[i].st = "answered"
        /\ http_calls[i].response.body = Body("json", TRUE, e.description)
        /\ http_calls[i].response.status =
              CASE e.error_type = "BadRequest" -> 400
                [] e.error_type = "Unauthorized" -> 401
                [] e.error_type = "NotFound" -> 404
                [] e.error_type = "HttpMethodNotAllowed" -> 405
                [] e.error_type = "Internal" -> 500
        /\ (http_calls[i].from = "handler" /\ ~http_calls[i].result.error.protocol
              => http_calls[i].response =
                    HttpResponse(500, Body("json", TRUE, "request timed out")))

\* the handler timed out for one request (500) and the response converter
\* failed with a MethodNotAllowed error for the other (405)
C16_Witness ==
    /\ http_calls[1].from = "handler"
    /\ http_calls[1].result.error = Elapsed
    /\ http_calls[1].response.status = 500
    /\ http_calls[2].from = "response"
    /\ http_calls[2].conv.err.error_type = "HttpMethodNotAllowed"
    /\ http_calls[2].response.status = 405

(***************************************************************************)
(* Properties of the HTTP client and of its event stream.                  *)
(***************************************************************************)
\* C15 (HTTP client error decoding): a call that received a response whose
\* status is no success fails; when the body is the JSON {"error": text}
\* the error has the category of the status (400 BadRequest, 401
\* Unauthorized, 404 NotFound, 405 MethodNotAllowed, any other Internal)
\* and that text; when the body is other JSON or no JSON the error is a
\* BadRequest, and when the body cannot be read it is Internal.
C15_ErrorDecoding ==
    client_call.st = "done" /\ client_call.result.ok
    /\ ~(client_call.result.response.status \in 200..299)
        => LET status == client_call.result.response.status
               body == client_call.result.response.body
           IN  /\ ~client_call.ok
               /\ client_call.err.error_type =
                    CASE body.t = "broken" -> "Internal"
                      [] body.t = "text" \/ ~body.has_error -> "BadRequest"
                      [] status = 400 -> "BadRequest"
                      [] status = 401 -> "Unauthorized"
                      [] status = 404 -> "NotFound"
                      [] status = 405 -> "HttpMethodNotAllowed"
                      [] OTHER -> "Internal"
               /\ (body.t = "json" /\ body.has_error => client_call.err.description = body.error)

\* C15 as stated: the category of the error is that of the status,
\* whatever the body of the response is.
C15_CategoryFromStatusAlone ==
    client_call.st = "done" /\ client_call.result.ok
    /\ ~(client_call.result.response.status \in 200..299)
        => /\ ~client_call.ok
           /\ client_call.err.error_type =
                CASE client_call.result.response.status = 400 -> "BadRequest"
                  [] client_call.result.response.status = 401 -> "Unauthorized"
                  [] client_call.result.response.status = 404 -> "NotFound"
                  [] client_call.result.response.status = 405 -> "HttpMethodNotAllowed"
                  [] OTHER -> "Internal"

\* a 503 with the JSON error body was decoded as an Internal error
C15_Witness ==
    /\ client_call.st = "done"
    /\ client_call.result.ok
    /\ client_call.result.response = HttpResponse(503, Body("json", TRUE, "e"))
    /\ client_call.err = Err("Internal", "e")
    /\ client_api_key.present

\* C19 (SSE client stream): the items delivered are, in order, one item
\* for each line read so far that begins with "data: "; lines without the
\* prefix give no item, a transport error gives one last error item, and
\* once the stream has ended nothing is delivered.
C19_SseStream ==
    LET data_lines == SelectSeq(sse_lines, starts_with_prefix)
        last == IF sse_items = <<>> THEN ItemOk(NoValue) ELSE sse_items[Len(sse_items)]
        transport == ItemErr(Err("Internal", "connection error"))
    IN  \/ Len(sse_items) = Len(data_lines)
        \/ /\ sse_st = "ended"
           /\ last = transport
           /\ Len(sse_items) = Len(data_lines) + 1

(***************************************************************************)
(* Properties of the client's lifetime and of the loops under I/O errors.  *)
(***************************************************************************)
\* C21 (stdio client lifecycle): cloning a client changes nothing of the
\* comm task and does not touch the child; the child is killed exactly
\* when no clone is left, and once the last clone is gone the comm task
\* eventually returns from run.
C21_ClientLifecycle ==
    /\ [](childKilled <=> clones = 0)
    /\ [][clones' > clones => commState' = commState /\ childKilled' = childKilled]_vars
    /\ (clones = 0) ~> ~commRunning

\* both clones were dropped while a call waited; the comm task saw the
\* closed channel, went on, and returned at the end of the child's output
C21_Witness ==
    /\ clones = 0
    /\ childKilled
    /\ ~commRunning
    /\ "recv_none" \in events
    /\ outcome[1] = Failed(TimedOut, NullId)

\* A write of the server failed: a sub-task came to the end of a request
\* that has a Response, and stdout holds no message for it.
ServerWriteFailed ==
    \E r \in Reqs : reqs[r].st \in {"single", "failed", "timedout"} /\ Out(r) = <<>>

\* A write of the comm task failed: a request was given its id and is not
\* on the child's stdin.
ClientWriteFailed ==
    \E c \in Calls :
        /\ assigned[c] # 0
        /\ \A k \in DOMAIN child_stdin :
                child_stdin[k] # JsonRpcRequest(<<"m">>, NumId(assigned[c]))

\* C22 (fatal I/O errors): once a read or a write of the stdio server has
\* failed, run has left its loop and returned the error; once a read or a
\* write of the stdio client's comm task has failed, the task has ended.
C22_FatalIoErrors ==
    /\ run_err \/ ServerWriteFailed => ~srvRunning /\ run_err
    /\ "read_error" \in events \/ ClientWriteFailed => ~commRunning

\* C29 (comm task exit): once the comm task has found the submission
\* channel closed it has returned from run, and it has returned only after
\* finding the channel closed or reading the end of the child's stdout.
C29_CommTaskExit ==
    /\ "recv_none" \in events => ~commRunning
    /\ ~commRunning => "recv_none" \in events \/ "eof" \in events

(***************************************************************************)
(* Properties of the conversions of jsonrpc.rs.                            *)
(***************************************************************************)
\* C24 (category / code map): BadRequest and Unauthorized give the code
\* -32600, Internal, NotFound and MethodNotAllowed give -32603; the codes
\* -32700, -32600, -32601 and -32602 give BadRequest, -32603 and every
\* other integer give Internal.
C24_CategoryCodeMap ==
    /\ fn_in.t = "category" /\ fn_out.done
            => fn_out.code = IF fn_in.category \in {"BadRequest", "Unauthorized"}
                             THEN -32600 ELSE -32603
    /\ fn_in.t = "code" /\ fn_out.done
            => fn_out.category = IF fn_in.code \in {-32700, -32600, -32601, -32602}
                                 THEN "BadRequest" ELSE "Internal"

\* the code of a parse error was mapped to BadRequest
C24_Witness ==
    /\ fn_in.t = "code"
    /\ fn_in.code = -32700
    /\ fn_out.done
    /\ fn_out.category = "BadRequest"

\* C25 (message discrimination): a value with a method key and an id key,
\* the id null included, is parsed as a Request; one with a method key and
\* no id key as a Notification; every value without a method key (null
\* and arrays included) as a Response. The variant is a function of the
\* presence of the two keys alone, and a successful parse gives a message
\* of that variant.
C25_Discrimination ==
    fn_in.t = "line" /\ fn_out.done
        => LET value == from_str_or_default(fn_in.line)
               has_method == value.t = "object" /\ value.method # "absent"
               has_id == value.t = "object" /\ value.id # "absent"
           IN  fn_out.variant =
                    IF has_method THEN IF has_id THEN "Request" ELSE "Notification"
                    ELSE "Response"

\* a value with a method and "id": null was parsed, and is a Request
C25_Witness ==
    /\ fn_in.t = "line"
    /\ fn_in.line.t = "object"
    /\ fn_in.line.method = "str"
    /\ fn_in.line.id = "null"
    /\ fn_out.done
    /\ fn_out.ok
    /\ fn_out.variant = "Request"

(***************************************************************************)
(* Properties of the loops reading lines.                                  *)
(***************************************************************************)
\* C23 (malformed input): the step in which the comm task or the server
\* reads a line that is no JSON or no JSON-RPC message changes nothing of
\* the calls, the maps, the requests in progress and what was written, and
\* leaves both loops running.
C23_MalformedInput ==
    [][events' # events
          => /\ clientVars' = clientVars
             /\ serverVars' = serverVars
             /\ commRunning' /\ srvRunning']_vars

\* each loop read a malformed line, and each went on to complete the work
\* it had in progress: call 1 got its response, request 1 was answered
C23_Witness ==
    /\ {"malformed", "server_malformed"} \subseteq events
    /\ outcome[1].kind = "Single"
    /\ reqs[1].st = "single"
    /\ Len(Out(1)) = 1
    /\ commRunning /\ srvRunning

(***************************************************************************)
(* Properties of the comm task's two maps.                                 *)
(***************************************************************************)
\* C26 (pending-to-streaming migration): for a call resolved with Multiple
\* by a Notification with params, the first item on its stream is the item
\* of that Notification.
C26_Migration ==
    \A c \in Calls :
        outcome[c].kind = "Multiple" /\ emitted[assigned[c]] # <<>>
            => /\ notification_rx[c].items # <<>>
               /\ notification_rx[c].items[1] = ItemOf(emitted[assigned[c]][1])

\* C27 (disjoint maps): no id is a key of both pending_reqs and
\* notification_links, and every key of either map is one of the ids
\* handed out so far, 1..last_req_id.
C27_DisjointMaps ==
    /\ DOMAIN pending_reqs \cap DOMAIN notification_links = {}
    /\ DOMAIN pending_reqs \cup DOMAIN notification_links \subseteq 1..last_req_id

\* id 1 had moved to notification_links and got an item while id 2 was
\* pending
C27_Witness ==
    /\ DOMAIN notification_links = {1}
    /\ DOMAIN pending_reqs = {2}
    /\ last_req_id = 2
    /\ Len(notification_rx[1].items) = 1

\* What a line that concerns no call leaves alone: the maps, every call and
\* stream, the child's stdin and the comm task itself.
UnknownIdFrame ==
    /\ pending_reqs' = pending_reqs
    /\ notification_links' = notification_links
    /\ callState' = callState
    /\ outcome' = outcome
    /\ resolved' = resolved
    /\ notification_rx' = notification_rx
    /\ child_stdin' = child_stdin
    /\ last_req_id' = last_req_id
    /\ commRunning' = commRunning

\* C28 (unknown ids): reading a Response whose id is no key of pending_reqs
\* (the id of a streaming call included), or a Notification whose id is a
\* key of neither map, changes neither map, delivers nothing to any call
\* or stream, writes nothing to the child and leaves the comm task running.
\* (every step either keeps all of that, or is no such read)
C28_UnknownIds ==
    [][\/ UnknownIdFrame
       \/ /\ \A m \in ChildResponses :
                (\A k \in DOMAIN pending_reqs : m.id # NumId(k))
                    => \A conv \in Conversions : ~handle_response(m, conv)
          /\ \A m \in ChildNotifications :
                (\A k \in DOMAIN pending_reqs \cup DOMAIN notification_links :
                        ParseU64(m.method) # k)
                    => \A conv \in Conversions : ~handle_notification(m, conv)]_vars

\* the stream of call 1 had ended, a further Notification for id 1 was
\* read, and call 2 was still pending and the task running
C28_Witness ==
    /\ lateSeen[1]
    /\ notification_rx[1].st = "closed"
    /\ DOMAIN pending_reqs = {2}
    /\ DOMAIN notification_links = {}
    /\ callState[2] = "awaiting"
    /\ commRunning


(***************************************************************************)
(* Properties of the stdout of the stdio server.                           *)
(***************************************************************************)
\* Entry i of stdout starts a message: whatever came before it ended with
\* the newline of a whole message.
StartsMessage(i) == out_bytes[i].k = 1 /\ (i = 1 \/ out_bytes[i - 1].nl)

\* Entry i of stdout continues the message of the entry before it.
ContinuesMessage(i) ==
    /\ i > 1
    /\ out_bytes[i].k = out_bytes[i - 1].k + 1
    /\ out_bytes[i].writer = out_bytes[i - 1].writer
    /\ out_bytes[i].msg = out_bytes[i - 1].msg
    /\ ~out_bytes[i - 1].nl

\* The message at the end of stdout still lacks its newline.
PartialAtEnd == out_bytes # <<>> /\ ~out_bytes[Len(out_bytes)].nl

\* C30: with the sub-tasks writing Responses and the main loop writing
\* Notifications concurrently, every write to stdout is made by the one task
\* that holds the stdout mutex, so stdout is a sequence of whole
\* newline-terminated messages, the last of which may still be under way (its
\* writer holds the mutex) or cut short by the closing of stdout; the bytes
\* of two messages never interleave.
C30_OutputAtomicity ==
    /\ Cardinality(out_lock) <= 1
    /\ \A w \in Writers : out_pc[w] = "write" <=> w \in out_lock
    /\ \A i \in 1..Len(out_bytes) : StartsMessage(i) \/ ContinuesMessage(i)
    /\ PartialAtEnd =>
          \/ stdoutBroken
          \/ LET w == out_bytes[Len(out_bytes)].writer IN
                /\ w \in out_lock
                /\ out_msg[w] = out_bytes[Len(out_bytes)].msg
                /\ out_pos[w] = out_bytes[Len(out_bytes)].k

\* The main loop is in the middle of a notification while a sub-task waits
\* for the mutex with its Response, after another sub-task's Response was
\* written whole.
C30_Witness ==
    /\ out_pc[MainLoop] = "write"
    /\ out_pos[MainLoop] >= 1
    /\ out_pos[MainLoop] < out_len[MainLoop]
    /\ \E t \in SubTasks : out_pc[t] = "lock"
    /\ \E i \in 1..Len(out_bytes) : out_bytes[i].writer \in SubTasks /\ out_bytes[i].nl
    /\ ~stdoutBroken

(***************************************************************************)
(* Concurrency, reply shape and shutdown of the stdio server.              *)
(***************************************************************************)
\* The Responses written to stdout, with the request each was written for.
ResponsesWritten == SelectSeq(stdout, LAMBDA w : w.msg.type = "Response")

\* C31: a handler that has not completed never keeps the main loop from
\* reading and dispatching a later request (while run is in its loop a
\* request line can always be handled, whatever the handlers are doing), and
\* every Response carries the id the server read from its own request (the
\* request's id, ids being non-negative integers; 0 for any other JSON value).
C31_Concurrency ==
    /\ srvRunning /\ accepted < MaxReqs
          => ENABLED handle_request(JsonRpcRequest(<<"m">>, NumId(1)), "some")
    /\ \A k \in 1..Len(ResponsesWritten) :
          ResponsesWritten[k].msg.id = NumId(IdAsU64(reqs[ResponsesWritten[k].src].jid))

\* Request 2 was read while the handler of request 1 was running, and was
\* answered first; each of the two Responses carries its own request's id.
C31_Witness ==
    /\ Len(stdout) = 2
    /\ stdout[1].src = 2 /\ stdout[2].src = 1
    /\ stdout[1].msg.type = "Response" /\ stdout[2].msg.type = "Response"
    /\ stdout[1].msg.id = reqs[2].jid /\ stdout[2].msg.id = reqs[1].jid
    /\ reqs[1].jid # reqs[2].jid

(***************************************************************************)
(* Properties of the payloads of stream items.                             *)
(***************************************************************************)
\* C32: the payload built for a stream item, the params of a stdio
\* notification or the JSON text of an SSE frame, has exactly one of its
\* members result and error non-null, for every item value and every error.
C32_ResultXorError ==
    fn_in.t = "item" /\ fn_out.done
        => (fn_out.result # NoValue) # fn_out.has_error

(***************************************************************************)
(* The end of the child, seen from the stdio client.                       *)
(***************************************************************************)
\* C33: the step in which the comm task reads the end of file stops it; in
\* that step every call still awaiting its reply returns the Internal error
\* of a dropped oneshot, without a timeout, and every live notification
\* stream ends. From then on nothing awaits and no stream is live, and a call
\* submitted afterwards returns the Internal error of a failed send at once.
C33_ChildExit ==
    /\ [][commRunning /\ ~commRunning'
            => \A c \in Calls :
                 /\ callState[c] = "awaiting"
                      => callState'[c] = "done" /\ outcome'[c] = Failed(RecvError, NullId)
                 /\ notification_rx[c].st = "live" => notification_rx'[c].st = "closed"]_vars
    /\ [](~commRunning
            => \A c \in Calls :
                 /\ callState[c] # "awaiting"
                 /\ notification_rx[c].st # "live")
    /\ [][~commRunning
            => \A c \in Calls :
                 callState[c] = "idle" /\ callState'[c] # "idle"
                    => /\ callState'[c] = "done"
                       /\ outcome'[c] = Failed(SendError, NullId)
                       /\ outcome'[c].err.error_type = "Internal"]_vars

\* Call 1 was awaiting its reply when the end of file was read, and call 2
\* was submitted after it: both returned an Internal error, none timed out.
C33_Witness ==
    /\ ~commRunning
    /\ outcome[1] = Failed(RecvError, NullId)
    /\ assigned[1] # 0
    /\ replyKind[assigned[1]] = "none"
    /\ outcome[2] = Failed(SendError, NullId)
    /\ \A c \in Calls : callState[c] = "done"

\* The messages on stdout that name the id: Responses with that id and
\* Notifications whose method is the id in decimal.
OutFor(id) ==
    LET named == SelectSeq(stdout,
                    LAMBDA w : \/ w.msg.type = "Response" /\ w.msg.id = NumId(id)
                               \/ w.msg.type = "Notification"
                                    /\ w.msg.method = U64ToString(id))
    IN  [k \in 1..Len(named) |-> named[k].msg]

\* Nothing yet, one Response, or Notifications of which only the last may be
\* the one without params.
ReplyShape(m) ==
    \/ m = <<>>
    \/ Len(m) = 1 /\ m[1].type = "Response"
    \/ \A k \in 1..Len(m) :
          /\ m[k].type = "Notification"
          /\ m[k].params = NoParams => k = Len(m)

\* C34: with a converter that gives a Response for a single value and a
\* Notification for a stream item, what is written for an accepted request
\* is one Response or else Notifications closed by at most one sentinel,
\* which is then the last; when the request's id is not shared with another
\* accepted request these are all the messages on stdout naming that id; and
\* every message on stdout was written for an accepted request: a line that
\* is no Request, or whose conversion failed or was declined, has none.
C34_ReplyShape ==
    /\ \A k \in 1..Len(stdout) : stdout[k].src \in 1..accepted
    /\ \A r \in Reqs : ReplyShape(Out(r))
    /\ \A r \in 1..accepted :
          (\A q \in 1..accepted : q # r => reqs[q].id # reqs[r].id)
              => OutFor(reqs[r].id) = Out(r)
    /\ \A r \in Reqs : reqs[r].st \in {"single", "failed", "timedout"} <=>
                            (Len(Out(r)) = 1 /\ Out(r)[1].type = "Response")

\* Request 1 got its one Response; the stream of request 2 gave one item and
\* ended: two Notifications, the sentinel last.
C34_Witness ==
    /\ reqs[1].st = "single"
    /\ reqs[2].st = "removed"
    /\ Len(yielded[2]) = 1
    /\ Len(Out(1)) = 1
    /\ Len(Out(2)) = 2
    /\ Out(2)[2].params = NoParams
    /\ reqs[1].id # reqs[2].id

(***************************************************************************)
(* Error items on a stdio stream, from the handler to the consumer.        *)
(***************************************************************************)
\* The handler's stream of request r has just yielded an Err item.
YieldsError(r) ==
    /\ Len(yielded'[r]) = Len(yielded[r]) + 1
    /\ ~yielded'[r][Len(yielded'[r])].ok

\* The comm task has just put an Err item on the stream of call c.
ForwardsError(c) ==
    /\ Len(notification_rx'[c].items) = Len(notification_rx[c].items) + 1
    /\ ~notification_rx'[c].items[Len(notification_rx'[c].items)].ok

\* C35: when the handler's stream yields an Err item the server writes a
\* Notification with error params for it and the link stays polled; when the
\* client reads it the consumer gets the Err item and the id stays in the
\* streams map; a live stream is closed by nothing but the notification
\* without params (or the end of the comm task); and every notification
\* with params read for the id after an error item adds its item to the
\* stream, behind the items already there.
C35_ErrorItems ==
    /\ [][\A r \in Reqs :
            YieldsError(r)
                => /\ reqs'[r].st = "streaming"
                   /\ stdout' = Append(stdout,
                        [msg |-> ItemNotification(r, yielded'[r][Len(yielded'[r])]),
                         src |-> r])
                   /\ stdout'[Len(stdout')].msg.params.error.present]_vars
    /\ [][\A c \in Calls :
            /\ ForwardsError(c)
                => /\ notification_rx'[c].st = "live"
                   /\ assigned[c] \in DOMAIN notification_links'
            /\ notification_rx[c].st = "live" /\ notification_rx'[c].st # "live"
                => sentinelSeen'[assigned[c]] \/ ~commRunning']_vars
    /\ [][\A c \in Calls :
            /\ notification_rx[c].st = "live"
            /\ \E k \in 1..Len(notification_rx[c].items) : ~notification_rx[c].items[k].ok
            /\ Len(emitted'[assigned[c]]) = Len(emitted[assigned[c]]) + 1
            => notification_rx'[c].items =
                 Append(notification_rx[c].items,
                        ItemOf(emitted'[assigned[c]][Len(emitted'[assigned[c]])]))]_vars

(***************************************************************************)
(* Order of the checks of the HTTP server.                                 *)
(***************************************************************************)
\* C36: the API-key check comes before routing: a request that fails
\* check_api_key is answered at once with 401 and the body
\* {"error": "401 Unauthorized"}, whatever the request converter would have
\* made of its path and method, and neither the request converter nor the
\* handler is invoked for it.
C36_CheckOrder ==
    \A i \in HttpCalls :
        http_calls[i].st # "idle" /\ ~check_api_key(api_keys, http_calls[i].header)
            => /\ http_calls[i].st = "answered"
               /\ http_calls[i].from = "auth"
               /\ http_calls[i].response =
                    HttpResponse(401, Body("json", TRUE, "401 Unauthorized"))
               /\ ~http_calls[i].converted
               /\ ~http_calls[i].handled

\* Of two requests to a server with keys, the first carried no key and was
\* answered 401 unconverted; the second carried a key and reached the handler.
C36_Witness ==
    /\ api_keys # {}
    /\ ~http_calls[1].header.present
    /\ http_calls[1].st = "answered"
    /\ http_calls[1].response.status = 401
    /\ ~http_calls[1].converted
    /\ http_calls[2].handled

(***************************************************************************)
(* Shutdown of the stdio server.                                           *)
(***************************************************************************)
\* C37: the end of stdin ends run at once: while run is in its loop the step
\* is possible whatever is in flight; the step writes nothing and touches no
\* request or stream; and after it the main loop writes no Notification any
\* more, so that a stream active at that moment never gets its sentinel and
\* a link sent later is lost. A sub-task still running may or may not write
\* its Response afterwards.
C37_Shutdown ==
    /\ [](srvRunning => ENABLED server_eof)
    /\ [][srvRunning /\ ~srvRunning'
            => stdout' = stdout /\ reqs' = reqs /\ yielded' = yielded
               /\ notification_stream_rx' = notification_stream_rx]_vars
    /\ [][~srvRunning
            => /\ \A k \in (Len(stdout) + 1)..Len(stdout') :
                     stdout'[k].msg.type = "Response"
               /\ \A r \in Reqs :
                     /\ reqs[r].st \in {"queued", "streaming"} => reqs'[r] = reqs[r]
                     /\ reqs'[r].st \notin {"queued", "streaming"} \/ reqs'[r] = reqs[r]]_vars

\* run has returned while the handler of request 1 was running and the
\* stream of request 2 was active after one item: no Response for the one,
\* no sentinel for the other.
C37_Witness ==
    /\ ~srvRunning
    /\ reqs[1].st = "running"
    /\ Out(1) = <<>>
    /\ reqs[2].st = "streaming"
    /\ Len(Out(2)) = 1
    /\ Out(2)[1].params # NoParams

(***************************************************************************)
(* A stream that ends before its first item.                               *)
(***************************************************************************)
\* C38: when the first notification read for a pending id has no params
\* (absent or null), the awaiting call returns Multiple with a stream that
\* is closed and carries no item, and after the step the id is in neither
\* pending_reqs nor notification_links.
C38_SentinelFirst ==
    [][\A c \in Calls :
          /\ assigned[c] # 0
          /\ assigned[c] \in DOMAIN pending_reqs
          /\ ~sentinelSeen[assigned[c]]
          /\ sentinelSeen'[assigned[c]]
          => /\ assigned[c] \notin DOMAIN pending_reqs'
             /\ assigned[c] \notin DOMAIN notification_links'
             /\ callState[c] = "awaiting"
                  => /\ callState'[c] = "done"
                     /\ outcome'[c] = Multiple(NumId(assigned[c]))
                     /\ notification_rx'[c] = [st |-> "closed", items |-> <<>>]]_vars

\* The only line read was a notification without params for the pending
\* call 1: the call returned an empty, closed stream.
C38_Witness ==
    /\ linesRead = 1
    /\ assigned[1] # 0
    /\ sentinelSeen[assigned[1]]
    /\ outcome[1].kind = "Multiple"
    /\ notification_rx[1] = [st |-> "closed", items |-> <<>>]
    /\ pending_reqs = EmptyMap
    /\ notification_links = EmptyMap

(***************************************************************************)
(* The SSE stream and the chunks of the transport.                         *)
(***************************************************************************)
\* The complete lines of a text, each with its line break, in order: what
\* the stream drains when the whole text arrives as one chunk.
RECURSIVE LinesOf(_, _)
LinesOf(text, line) ==
    IF text = <<>> THEN <<>>
    ELSE IF Head(text) = LineBreak
    THEN <<Append(line, Head(text))>> \o LinesOf(Tail(text), <<>>)
    ELSE LinesOf(Tail(text), Append(line, Head(text)))

\* What follows the last line break of a text.
RECURSIVE RestOf(_, _)
RestOf(text, line) ==
    IF text = <<>> THEN line
    ELSE IF Head(text) = LineBreak THEN RestOf(Tail(text), <<>>)
    ELSE RestOf(Tail(text), Append(line, Head(text)))

\* The drained lines that yield an item.
YieldingLines ==
    SelectSeq(sse_lines,
              LAMBDA l : SseLineItems(l, [kind |-> "some", err |-> Err("Internal", "")]) # <<>>)

\* The items read from lines (a transport error adds one more at the end).
LineItems ==
    IF Len(sse_items) > Len(YieldingLines)
    THEN SubSeq(sse_items, 1, Len(sse_items) - 1)
    ELSE sse_items

\* C39: whatever the chunks the body arrived in, the lines the stream has
\* drained, with those still complete in its buffer, are the complete lines
\* of the bytes received, and what it keeps after them is the unfinished
\* rest of these bytes; each item is the item of one yielding line, in the
\* order of the lines; before the next chunk is awaited, and at the close of
\* the body, every complete line has been drained, and the bytes after the
\* last line break have yielded nothing.
C39_ChunkingIndependence ==
    /\ sse_lines \o LinesOf(sse_buffer, <<>>) = LinesOf(sse_body, <<>>)
    /\ RestOf(sse_buffer, <<>>) = RestOf(sse_body, <<>>)
    /\ Len(LineItems) = Len(YieldingLines)
    /\ \A k \in 1..Len(LineItems) :
          \E conv \in HttpConversions : <<LineItems[k]>> = SseLineItems(YieldingLines[k], conv)
    /\ Len(sse_items) <= Len(YieldingLines) + 1
    /\ sse_st = "ended" => sse_lines = LinesOf(sse_body, <<>>)

\* A frame arrived in two chunks, cut before its line break, and gave its item;
\* the bytes that followed its line break gave none.
C39_Witness ==
    /\ sse_chunks = 2
    /\ sse_st = "ended"
    /\ Len(sse_body) = 4
    /\ sse_body[1] = SSE_DATA_PREFIX
    /\ sse_body[2].k = "json"
    /\ sse_body[3] = LineBreak
    /\ sse_body[4].k = "json"
    /\ sse_items = <<ItemOk("a")>>
    /\ sse_buffer = <<sse_body[4]>>

(***************************************************************************)
(* The id 0 on the stdio client.                                           *)
(***************************************************************************)
\* The Response's id is no non-negative integer, or is 0: its key is 0.
DefaultedResponse(m) == ~(m.id.t = "num" /\ m.id.v > 0)

\* The Notification's method is no decimal integer, or is one of value 0.
DefaultedNotification(m) ==
    \/ m.method = <<>>
    \/ \E k \in 1..Len(IF Head(m.method) = "+" THEN Tail(m.method) ELSE m.method) :
          ~IsDigit((IF Head(m.method) = "+" THEN Tail(m.method) ELSE m.method)[k])
    \/ m.method \in {<<"0">>, <<"+">>, <<"+", "0">>, <<"0", "0">>}

\* C40: ids are handed out from 1, so 0 is a key of neither pending_reqs nor
\* notification_links; and a step that reads a Response whose id is not a
\* positive integer, or a Notification whose method is not the decimal form
\* of one (both are looked up under the key 0), resolves no call, feeds no
\* stream and changes neither map.
C40_DefaultedIds ==
    /\ [](/\ 0 \notin DOMAIN pending_reqs
          /\ 0 \notin DOMAIN notification_links
          /\ DOMAIN pending_reqs \cup DOMAIN notification_links \subseteq 1..last_req_id)
    /\ [][\/ /\ pending_reqs' = pending_reqs
             /\ notification_links' = notification_links
             /\ callState' = callState
             /\ outcome' = outcome
             /\ notification_rx' = notification_rx
          \/ /\ \A m \in ChildResponses :
                   DefaultedResponse(m) => \A conv \in Conversions : ~handle_response(m, conv)
             /\ \A m \in ChildNotifications :
                   DefaultedNotification(m)
                       => \A conv \in Conversions : ~handle_notification(m, conv)]_vars

\* Call 1 is pending under the key 1 and call 2 streams under the key 2
\* while a Response with the id "1" and a Notification with the method "x"
\* can be read.
C40_Witness ==
    /\ DOMAIN pending_reqs = {1}
    /\ DOMAIN notification_links = {2}
    /\ callState[1] = "awaiting"
    /\ ENABLED handle_response(
          [type |-> "Response", result |-> "a", error |-> NoError, id |-> StrId(1)], "some")
    /\ ENABLED handle_notification(
          JsonRpcNotificationNew(<<"x">>, ResultParams("a", NoError)), "some")

====
